---- MODULE Spec2Model ----
(***************************************************************************)
(* Model of the concurrent, resumable, checkpointed translation scheduler  *)
(* translate_text_gemini (src/utils/translator.py), the per-paragraph      *)
(* retry loop translate_paragraph_gemini, the SQLite checkpoint store      *)
(* (src/utils/progress_storage.py) and the caller in src/app.py that       *)
(* starts, stops, resumes and completes a job.                             *)
(*                                                                         *)
(* One job (one file_id) is modelled.  The provider is a deterministic     *)
(* stub: `client` fixes, per paragraph, how the provider answers; the      *)
(* answer to a successful call on paragraph i is the non-blank text Tr(i). *)
(* Callbacks return normally.                                              *)
(*                                                                         *)
(* Spec           non-streaming runs, checkpoint writes succeed            *)
(* SpecStream     runs of one pool thread, streaming or not                *)
(* SpecStoreFault non-streaming runs whose checkpoint writes may fail      *)
(* SpecStore      direct calls of the checkpoint store                     *)
(* SpecStoreThreads  calls of the store by several threads at once         *)
(* SpecSegment    calls of split_into_paragraphs on small texts            *)
(* SpecLines      the line loop of split_into_paragraphs on long lines     *)
(* SpecOneRun     one non-streaming run with MaxWorkers pool threads       *)
(* FairSpecOneRun the same under fair scheduling                           *)
(* SpecPool       one non-streaming run for each setting of MAX_WORKERS    *)
(* SpecFlaky      runs whose provider calls fail transiently               *)
(* SpecStreamPool one streaming run with MaxWorkers pool threads           *)
(***************************************************************************)
EXTENDS Integers, Sequences, FiniteSets, TLC

\* ---------------------------------------------------------------- bounds
MaxParas == 3
MaxWorkers == 2
MaxTime == 1

\* config.MAX_RETRIES default
MAX_RETRIES == 3

total_paragraphs == MaxParas
Paras == 0..(total_paragraphs - 1)
Workers == 1..MaxWorkers

\* ---------------------------------------------------------------- texts
\* A text is a record; None is Python's None in a result slot.
None == [kind |-> "none", idx |-> -1]
paragraphs == [i \in Paras |-> [kind |-> "orig", idx |-> i]]
\* A paragraph list of the same length with other texts.
AltParagraphs == [i \in Paras |-> [kind |-> "orig2", idx |-> i]]
Tr(i) == [kind |-> "tr", idx |-> i]
\* The empty string.
EmptyText == [kind |-> "empty", idx |-> -1]
\* error_text = f"{paragraph} [Translation error: ...]"
ErrorText(i) == [kind |-> "orig+error", idx |-> paragraphs[i].idx]

\* The language pair and the model of the job's runs.
source_lang == "source"
target_lang == "target"
model_name == "model"

\* The source_lang, target_lang and model_name arguments of a store call.
RunSettings == [source_lang |-> source_lang, target_lang |-> target_lang,
                model_name |-> model_name]
OtherSettings == [source_lang |-> source_lang, target_lang |-> "target2",
                  model_name |-> "model2"]
JobSettings == {RunSettings, OtherSettings}

\* ------------------------------------------------------------ the client
Behaviours == {"ok", "auth", "fail", "flaky"}
\* Paragraphs whose calls fail transiently on fewer than max_retries attempts.
FlakyBehaviours == {"flaky", "flaky_twice"}
TransientKinds == {"rate_limit", "network", "other"}

\* What one provider call (generate_content) on a paragraph does at a given
\* attempt of the retry loop: "ok" or the kind of error it raises.
ClientOutcomes(beh, attempt) ==
    CASE beh = "ok"    -> {"ok"}
      [] beh = "auth"  -> {"auth"}
      [] beh = "fail"  -> TransientKinds
      [] beh = "flaky" -> IF attempt = 0 THEN TransientKinds ELSE {"ok"}
      [] beh = "flaky_twice" -> IF attempt < MAX_RETRIES - 1 THEN TransientKinds ELSE {"ok"}

\* Mutation: no error is retried.
RetryDecisionNoRetry(kind, attempt, max_retries) ==
    IF kind = "auth" THEN "raise_value_error" ELSE "raise_exception"

\* Mutation: one attempt more than max_retries is made.
RetryDecisionOneMore(kind, attempt, max_retries) ==
    IF kind = "auth" THEN "raise_value_error"
    ELSE IF attempt < max_retries THEN "retry"
    ELSE "raise_exception"

\* Mutation: exhausted retries escape as the fatal error instead of Exception.
RetryDecisionFatalOnExhaustion(kind, attempt, max_retries) ==
    IF kind = "auth" THEN "raise_value_error"
    ELSE IF attempt < max_retries - 1 THEN "retry"
    ELSE "raise_value_error"

\* The except-branch of the retry loop: what happens after an error of the
\* given kind at the given attempt.
RetryDecision(kind, attempt, max_retries) ==
    IF kind = "auth" THEN "raise_value_error"
    ELSE IF attempt < max_retries - 1 THEN "retry"
    ELSE "raise_exception"

\* ------------------------------------------------------ checkpoint store
\* A jobs row: file_id is fixed (one job is modelled); timestamps are clock
\* readings (datetime.now()).
NoJob == [present |-> FALSE, source_lang |-> "", target_lang |-> "",
          model_name |-> "", total_paragraphs |-> 0,
          created_at |-> 0, updated_at |-> 0]
NoRow == [present |-> FALSE, original_text |-> None, translated_text |-> None]
EmptyParagraphsTable == [i \in Paras |-> NoRow]

\* Mutation: the job row records one paragraph fewer than the list has.
UpsertJobShortTotal(job, src, tgt, model, total, t) ==
    IF job.present THEN [job EXCEPT !.updated_at = t]
    ELSE [present |-> TRUE, source_lang |-> src, target_lang |-> tgt,
          model_name |-> model, total_paragraphs |-> total - 1,
          created_at |-> t, updated_at |-> t]

\* Mutation: INSERT OR REPLACE, a conflicting job row is written anew.
UpsertJobReplacing(job, src, tgt, model, total, t) ==
    [present |-> TRUE, source_lang |-> src, target_lang |-> tgt,
     model_name |-> model, total_paragraphs |-> total,
     created_at |-> t, updated_at |-> t]

\* update_progress_paragraph: upsert of the job row, then of the paragraph row.
UpsertJob(job, src, tgt, model, total, t) ==
    IF job.present THEN [job EXCEPT !.updated_at = t]
    ELSE [present |-> TRUE, source_lang |-> src, target_lang |-> tgt,
          model_name |-> model, total_paragraphs |-> total,
          created_at |-> t, updated_at |-> t]

\* Mutation: original and translated text are stored in each other's column.
UpsertParagraphSwapped(rows, idx, original_text, translated_text) ==
    IF rows[idx].present
    THEN [rows EXCEPT ![idx].translated_text = original_text]
    ELSE [rows EXCEPT ![idx] = [present |-> TRUE,
                                original_text |-> translated_text,
                                translated_text |-> original_text]]

\* Mutation: ON CONFLICT DO NOTHING, the first stored translation is kept.
UpsertParagraphKeepFirst(rows, idx, original_text, translated_text) ==
    IF rows[idx].present
    THEN rows
    ELSE [rows EXCEPT ![idx] = [present |-> TRUE,
                                original_text |-> original_text,
                                translated_text |-> translated_text]]

UpsertParagraph(rows, idx, original_text, translated_text) ==
    IF rows[idx].present
    THEN [rows EXCEPT ![idx].translated_text = translated_text]
    ELSE [rows EXCEPT ![idx] = [present |-> TRUE,
                                original_text |-> original_text,
                                translated_text |-> translated_text]]

\* No direct call of the store has been made.
NoCall == [op |-> "none", idx |-> -1, text |-> None, settings |-> RunSettings]

\* What load_progress returns when there is no job row (None).
NotFound == [found |-> FALSE]

\* original_paragraphs[paragraph_idx] if paragraph_idx < len(original_paragraphs)
\* else ""
OriginalText(originals, idx) ==
    IF idx < Cardinality(DOMAIN originals) THEN originals[idx] ELSE EmptyText

\* Mutation: every stored row counts as translated, the empty string too.
LoadedTranslatedAnyRow(job, rows) ==
    IF ~job.present THEN {}
    ELSE {i \in Paras : rows[i].present}

\* load_progress: the translated map (index -> text) of rows with a translation.
LoadedTranslated(job, rows) ==
    IF ~job.present THEN {}
    ELSE {i \in Paras : /\ rows[i].present
                         /\ rows[i].translated_text \notin {None, EmptyText}}

LoadCompleted(job, rows) == Cardinality(LoadedTranslated(job, rows))

\* load_progress: None without a job row, else the dictionary rebuilt from
\* the job row and the paragraph rows.
load_progress(job, rows) ==
    IF ~job.present THEN NotFound
    ELSE LET temp_originals == {i \in Paras : rows[i].present} IN
         [found |-> TRUE,
          source_lang |-> job.source_lang,
          target_lang |-> job.target_lang,
          model_name |-> job.model_name,
          total_paragraphs |-> job.total_paragraphs,
          original_paragraphs |->
              [i \in 0..(job.total_paragraphs - 1) |->
                  IF i \in temp_originals THEN rows[i].original_text
                  ELSE EmptyText],
          translated_paragraphs |->
              [i \in LoadedTranslated(job, rows) |-> rows[i].translated_text],
          completed_paragraphs |-> LoadCompleted(job, rows),
          updated_at |-> job.updated_at]

\* ------------------------------------------------------------- scheduler
\* Mutation: the pool gets one thread more than configured.
max_workers_one_more(cfg) == IF cfg < 1 THEN 2 ELSE cfg + 1

max_workers(cfg) == IF cfg < 1 THEN 1 ELSE cfg

\* tasks = [idx for idx in range(resume_from_index, total_paragraphs)]
RECURSIVE RangeSeq(_, _)
RangeSeq(lo, hi) == IF lo >= hi THEN <<>> ELSE <<lo>> \o RangeSeq(lo + 1, hi)

\* Mutation: the task range starts one index too early on resume.
TasksOffByOne(resume, total) ==
    RangeSeq(IF resume > 0 THEN resume - 1 ELSE 0, total)

Tasks(resume, total) == RangeSeq(resume, total)

\* completed_count = sum(1 for p in translated_paragraphs if p is not None)
CompletedCount(tp) == Cardinality({i \in DOMAIN tp : tp[i] # None})

\* '\n\n'.join([p for p in translated_paragraphs if p is not None]);
\* a joined text is the sequence of its blank-line separated segments.
RECURSIVE JoinFrom(_, _)
JoinFrom(tp, i) ==
    IF i >= total_paragraphs THEN <<>>
    ELSE (IF tp[i] # None THEN <<tp[i]>> ELSE <<>>) \o JoinFrom(tp, i + 1)

JoinText(tp) == JoinFrom(tp, 0)

\* Slots after the resume logic: indices below resume_from_index are filled from
\* the loaded checkpoint, everything else is None.
ResumeSlots(resume, job, rows) ==
    [i \in Paras |->
        IF i < resume /\ i \in LoadedTranslated(job, rows)
        THEN rows[i].translated_text
        ELSE None]

\* ------------------------------------------------------------- segmenter
\* split_into_paragraphs on strings as sequences of characters.  The float
\* thresholds (0.7, 0.75, 0.8, 1.5 times max_paragraph_size) are compared
\* as integer cross-products.
NL == "\n"
Whitespace == {" ", NL}
Digits == {"0", "1", "2", "3", "4", "5", "6", "7", "8", "9"}
CapitalLetters == {"A", "B", "G"}
SentenceEnd == {".", "!", "?"}

\* Thresholds written as numbers in the code.
substantial_threshold == 800
MinSentenceLength == 10
MergeFactor == 3
FinalMergeFactor == 4

RECURSIVE lstrip(_)
lstrip(s) == IF s # <<>> /\ Head(s) \in Whitespace THEN lstrip(Tail(s)) ELSE s

RECURSIVE rstrip(_)
rstrip(s) ==
    IF s # <<>> /\ s[Len(s)] \in Whitespace THEN rstrip(SubSeq(s, 1, Len(s) - 1)) ELSE s

\* str.strip()
strip(s) == rstrip(lstrip(s))

\* re.sub(r'[ \t]+', ' ', text)
RECURSIVE CollapseSpaces(_)
CollapseSpaces(s) ==
    IF s = <<>> THEN <<>>
    ELSE IF Head(s) = " " /\ Len(s) > 1 /\ s[2] = " " THEN CollapseSpaces(Tail(s))
    ELSE <<Head(s)>> \o CollapseSpaces(Tail(s))

\* re.sub(r'\n{3,}', '\n\n', text)
RECURSIVE CollapseNewlines(_)
CollapseNewlines(s) ==
    IF s = <<>> THEN <<>>
    ELSE IF Len(s) >= 3 /\ s[1] = NL /\ s[2] = NL /\ s[3] = NL THEN CollapseNewlines(Tail(s))
    ELSE <<Head(s)>> \o CollapseNewlines(Tail(s))

\* re.sub(r'\s+', ' ', para): the first character of every run of whitespace
\* is kept, as a space.
NormalizeWhitespace(s) ==
    LET first_of_run(i) == s[i] \notin Whitespace \/ i = 1 \/ s[i - 1] \notin Whitespace
        kept == SelectSeq([i \in 1..Len(s) |-> i], first_of_run)
    IN [k \in 1..Len(kept) |-> IF s[kept[k]] \in Whitespace THEN " " ELSE s[kept[k]]]

StartsWith(s, prefix) == Len(s) >= Len(prefix) /\ SubSeq(s, 1, Len(prefix)) = prefix

RECURSIVE SplitFrom(_, _, _)
SplitFrom(s, sep, current) ==
    IF s = <<>> THEN <<current>>
    ELSE IF StartsWith(s, sep)
         THEN <<current>> \o SplitFrom(SubSeq(s, Len(sep) + 1, Len(s)), sep, <<>>)
         ELSE SplitFrom(Tail(s), sep, Append(current, Head(s)))

\* str.split(sep)
split(s, sep) == SplitFrom(s, sep, <<>>)

RECURSIVE WordsFrom(_, _)
WordsFrom(s, current) ==
    IF s = <<>> THEN (IF current = <<>> THEN <<>> ELSE <<current>>)
    ELSE IF Head(s) \in Whitespace
         THEN (IF current = <<>> THEN <<>> ELSE <<current>>) \o WordsFrom(Tail(s), <<>>)
         ELSE WordsFrom(Tail(s), Append(current, Head(s)))

\* str.split()
split_words(s) == WordsFrom(s, <<>>)

\* ' '.join(parts)
RECURSIVE join(_)
join(parts) ==
    IF parts = <<>> THEN <<>>
    ELSE IF Len(parts) = 1 THEN parts[1]
    ELSE parts[1] \o <<" ">> \o join(Tail(parts))

RECURSIVE DropDigits(_)
DropDigits(s) == IF s # <<>> /\ Head(s) \in Digits THEN DropDigits(Tail(s)) ELSE s

\* re.match(r'^[\d]+[\.\)]\s+', s)
verse_pattern(s) ==
    LET rest == DropDigits(s) IN
    /\ Len(rest) < Len(s)
    /\ Len(rest) >= 2
    /\ rest[1] \in {".", ")"}
    /\ rest[2] \in Whitespace

AppendAlways(list, para, min_length) == Append(list, para)

\* list.append(para) under "if len(para) >= min_length"
AppendIfLong(list, para, min_length) ==
    IF Len(para) >= min_length THEN Append(list, para) ELSE list

FlushVerseGroup(grouped, current_verse_group, min_length) ==
    IF current_verse_group # <<>>
    THEN AppendIfLong(grouped, join(current_verse_group), min_length)
    ELSE grouped

RECURSIVE GroupLoop(_, _, _, _)
GroupLoop(paras, min_length, grouped, current_verse_group) ==
    IF paras = <<>> THEN FlushVerseGroup(grouped, current_verse_group, min_length)
    ELSE LET para_stripped == strip(Head(paras)) IN
         IF verse_pattern(para_stripped)
         THEN GroupLoop(Tail(paras), min_length, grouped,
                        Append(current_verse_group, para_stripped))
         ELSE GroupLoop(Tail(paras), min_length,
                        AppendIfLong(FlushVerseGroup(grouped, current_verse_group, min_length),
                                     para_stripped, min_length),
                        <<>>)

group_consecutive_verses_apart(paras, min_length) == paras

group_consecutive_verses(paras, min_length) ==
    IF paras = <<>> THEN <<>>
    ELSE LET grouped == GroupLoop(paras, min_length, <<>>, <<>>) IN
         IF grouped # <<>> THEN grouped ELSE paras

\* Strategy 1: the blank-line fragments, stripped and normalized, the short ones dropped.
RECURSIVE CleanFragments(_, _)
CleanFragments(fragments, min_length) ==
    IF fragments = <<>> THEN <<>>
    ELSE LET para == NormalizeWhitespace(strip(Head(fragments))) IN
         (IF Len(para) >= min_length THEN <<para>> ELSE <<>>)
             \o CleanFragments(Tail(fragments), min_length)

\* Merging of short paragraphs up to 70% of the maximum size.
RECURSIVE MergeShort(_, _, _, _)
MergeShort(paras, min_length, max_paragraph_size, merged_paragraphs) ==
    IF paras = <<>> THEN merged_paragraphs
    ELSE LET para == Head(paras)
             n == Len(merged_paragraphs)
             potential_merge == merged_paragraphs[n] \o <<" ">> \o para
         IN IF /\ Len(para) < min_length * MergeFactor
               /\ merged_paragraphs # <<>>
               /\ 10 * Len(potential_merge) <= 7 * max_paragraph_size
            THEN MergeShort(Tail(paras), min_length, max_paragraph_size,
                            [merged_paragraphs EXCEPT ![n] = potential_merge])
            ELSE MergeShort(Tail(paras), min_length, max_paragraph_size,
                            Append(merged_paragraphs, para))

\* re.search(r'[.!?]\s*$', prev_text)
ends_with_punctuation(prev_text) ==
    LET t == rstrip(prev_text) IN t # <<>> /\ t[Len(t)] \in SentenceEnd

starts_with_clear_marker(line_stripped) ==
    \/ verse_pattern(line_stripped)
    \/ (line_stripped # <<>> /\ Head(line_stripped) \in CapitalLetters)

\* Mutation: a line that starts with a marker closes the paragraph by itself.
should_start_new_on_marker(current_para, line_stripped, max_paragraph_size) ==
    /\ current_para # <<>>
    /\ \/ starts_with_clear_marker(line_stripped)
       \/ 4 * Len(join(current_para)) >= 3 * max_paragraph_size

should_start_new(current_para, line_stripped, max_paragraph_size) ==
    /\ current_para # <<>>
    /\ LET n == Len(current_para)
           prev_text == IF n >= 2 THEN join(SubSeq(current_para, n - 1, n)) ELSE current_para[n]
           current_para_size == Len(join(current_para))
       IN \/ /\ ends_with_punctuation(prev_text)
             /\ starts_with_clear_marker(line_stripped)
             /\ current_para_size >= substantial_threshold
          \/ 4 * current_para_size >= 3 * max_paragraph_size

FlushLines(potential_paragraphs, current_para, min_length) ==
    AppendIfLong(potential_paragraphs, NormalizeWhitespace(strip(join(current_para))), min_length)

\* Strategy 2: the loop over the lines of the text.
RECURSIVE LineLoop(_, _, _, _, _, _)
LineLoop(lines, min_length, max_paragraph_size, potential_paragraphs, current_para, consecutive_empty) ==
    IF lines = <<>>
    THEN IF current_para # <<>>
         THEN FlushLines(potential_paragraphs, current_para, min_length)
         ELSE potential_paragraphs
    ELSE LET line_stripped == strip(Head(lines)) IN
         IF line_stripped = <<>>
         THEN IF consecutive_empty + 1 >= 2 /\ current_para # <<>>
              THEN LineLoop(Tail(lines), min_length, max_paragraph_size,
                            FlushLines(potential_paragraphs, current_para, min_length),
                            <<>>, consecutive_empty + 1)
              ELSE LineLoop(Tail(lines), min_length, max_paragraph_size,
                            potential_paragraphs, current_para, consecutive_empty + 1)
         ELSE IF should_start_new(current_para, line_stripped, max_paragraph_size)
              THEN LineLoop(Tail(lines), min_length, max_paragraph_size,
                            FlushLines(potential_paragraphs, current_para, min_length),
                            <<line_stripped>>, 0)
              ELSE LineLoop(Tail(lines), min_length, max_paragraph_size,
                            potential_paragraphs, Append(current_para, line_stripped), 0)

\* re.split(r'([.!?])\s+', large_text) with each text joined to its punctuation mark.
RECURSIVE SentencesFrom(_, _)
SentencesFrom(s, current) ==
    IF s = <<>> THEN <<current>>
    ELSE IF Head(s) \in SentenceEnd /\ Len(s) >= 2 /\ s[2] \in Whitespace
         THEN <<Append(current, Head(s))>> \o SentencesFrom(lstrip(Tail(s)), <<>>)
         ELSE SentencesFrom(Tail(s), Append(current, Head(s)))

RECURSIVE LongSentences(_)
LongSentences(raw) ==
    IF raw = <<>> THEN <<>>
    ELSE LET sentence == strip(Head(raw)) IN
         (IF Len(sentence) >= MinSentenceLength THEN <<sentence>> ELSE <<>>)
             \o LongSentences(Tail(raw))

\* Strategy 3: the loop that groups sentences into paragraphs.
RECURSIVE SentenceLoop(_, _, _, _, _)
SentenceLoop(sentences, min_length, max_paragraph_size, cleaned_paragraphs, current_para) ==
    IF sentences = <<>>
    THEN IF current_para # <<>>
         THEN AppendIfLong(cleaned_paragraphs, current_para, min_length)
         ELSE cleaned_paragraphs
    ELSE LET sentence == Head(sentences)
             potential_para == IF current_para # <<>>
                               THEN current_para \o <<" ">> \o sentence
                               ELSE sentence
             split_here == /\ current_para # <<>>
                           /\ Len(current_para) >= substantial_threshold
                           /\ 4 * Len(potential_para) > 3 * max_paragraph_size
             cleaned1 == IF split_here
                         THEN AppendIfLong(cleaned_paragraphs, current_para, min_length)
                         ELSE cleaned_paragraphs
             para1 == IF split_here THEN sentence ELSE potential_para
             force_split == /\ Len(para1) > max_paragraph_size
                            /\ (Len(cleaned1) > 0 \/ Len(para1) > min_length)
             words == split_words(para1)
             mid_point == Len(words) \div 2
             first_half == join(SubSeq(words, 1, mid_point))
             second_half == join(SubSeq(words, mid_point + 1, Len(words)))
         IN SentenceLoop(Tail(sentences), min_length, max_paragraph_size,
                         IF force_split THEN AppendIfLong(cleaned1, first_half, min_length)
                                        ELSE cleaned1,
                         IF force_split THEN second_half ELSE para1)

\* Word-based chunking towards 80% of the maximum size (Strategy 4 and the final pass).
RECURSIVE ChunkLoop(_, _, _, _, _, _)
ChunkLoop(words, min_length, max_paragraph_size, chunks, current_chunk, current_size) ==
    IF words = <<>>
    THEN IF current_chunk # <<>>
         THEN AppendIfLong(chunks, strip(join(current_chunk)), min_length)
         ELSE chunks
    ELSE LET word == Head(words)
             word_size == Len(word) + 1
         IN IF 5 * (current_size + word_size) > 4 * max_paragraph_size /\ current_chunk # <<>>
            THEN ChunkLoop(Tail(words), min_length, max_paragraph_size,
                           AppendIfLong(chunks, strip(join(current_chunk)), min_length),
                           <<word>>, Len(word))
            ELSE ChunkLoop(Tail(words), min_length, max_paragraph_size, chunks,
                           Append(current_chunk, word), current_size + word_size)

\* Strategies 2 to 4 for one paragraph larger than the maximum size.
FallbackSplit(text, large_text, min_length, max_paragraph_size) ==
    LET potential_paragraphs ==
            LineLoop(split(text, <<NL>>), min_length, max_paragraph_size, <<>>, <<>>, 0)
        sentences == LongSentences(SentencesFrom(large_text, <<>>))
        by_sentence == IF sentences # <<>>
                       THEN SentenceLoop(sentences, min_length, max_paragraph_size, <<>>, <<>>)
                       ELSE <<>>
    IN IF Len(potential_paragraphs) > 1 THEN potential_paragraphs
       ELSE IF \/ Len(by_sentence) = 0
               \/ (Len(by_sentence) = 1 /\ Len(by_sentence[1]) > max_paragraph_size)
            THEN ChunkLoop(split_words(large_text), min_length, max_paragraph_size,
                           <<>>, <<>>, 0)
            ELSE by_sentence

\* The final cleanup loop.
RECURSIVE FinalPass(_, _, _, _)
FinalPass(paras, min_length, max_paragraph_size, final_paragraphs) ==
    IF paras = <<>> THEN final_paragraphs
    ELSE LET para == strip(NormalizeWhitespace(Head(paras)))
             n == Len(final_paragraphs)
             potential_merge == final_paragraphs[n] \o <<" ">> \o para
         IN IF 2 * Len(para) > 3 * max_paragraph_size
            THEN FinalPass(Tail(paras), min_length, max_paragraph_size,
                           ChunkLoop(split_words(para), min_length, max_paragraph_size,
                                     final_paragraphs, <<>>, 0))
            ELSE IF Len(para) >= min_length
                 THEN IF /\ final_paragraphs # <<>>
                         /\ 4 * Len(final_paragraphs[n]) < 3 * max_paragraph_size
                         /\ Len(para) < min_length * FinalMergeFactor
                         /\ Len(potential_merge) <= max_paragraph_size
                      THEN FinalPass(Tail(paras), min_length, max_paragraph_size,
                                     [final_paragraphs EXCEPT ![n] = potential_merge])
                      ELSE FinalPass(Tail(paras), min_length, max_paragraph_size,
                                     Append(final_paragraphs, para))
                 ELSE FinalPass(Tail(paras), min_length, max_paragraph_size, final_paragraphs)

\* "not text or not text.strip()"
IsBlank(text) == strip(text) = <<>>

\* The body of split_into_paragraphs after the blank-input return.
SplitNonBlank(text0, min_length, max_paragraph_size) ==
    LET text == CollapseNewlines(CollapseSpaces(text0))
        cleaned0 == CleanFragments(split(text, <<NL, NL>>), min_length)
        cleaned1 == IF Len(cleaned0) > 1
                    THEN group_consecutive_verses(cleaned0, min_length)
                    ELSE cleaned0
        cleaned2 == IF Len(cleaned1) > 1
                    THEN MergeShort(cleaned1, min_length, max_paragraph_size, <<>>)
                    ELSE cleaned1
        cleaned3 == IF Len(cleaned2) = 1 /\ Len(cleaned2[1]) > max_paragraph_size
                    THEN FallbackSplit(text, cleaned2[1], min_length, max_paragraph_size)
                    ELSE cleaned2
    IN FinalPass(cleaned3, min_length, max_paragraph_size, <<>>)

split_into_paragraphs_keeping_blank(text, min_length, max_paragraph_size) ==
    IF text = <<>> THEN <<>>
    ELSE IF IsBlank(text) THEN <<strip(text)>>
    ELSE SplitNonBlank(text, min_length, max_paragraph_size)

split_into_paragraphs(text, min_length, max_paragraph_size) ==
    IF IsBlank(text) THEN <<>> ELSE SplitNonBlank(text, min_length, max_paragraph_size)

\* Inputs of the segmenter: texts of at most MaxPieces pieces.
MaxPieces == 5
LongWord == <<"a", "a", "a", "a", "a", "a", "a", "a", "a">>
Pieces == {<<"a">>, LongWord, <<" ">>, <<NL>>, <<".">>, <<"1", ".", " ", "a">>}
MinLengths == {1, 3}
MaxSizes == {2, 9}
\* The defaults of min_length and max_paragraph_size.
DefaultMinLength == 50
DefaultMaxParagraphSize == 2000

RECURSIVE Flatten(_)
Flatten(pieces) == IF pieces = <<>> THEN <<>> ELSE Head(pieces) \o Flatten(Tail(pieces))

VARIABLES
    client,                 \* [Paras -> Behaviours], the stub's script
    MAX_WORKERS,            \* config.MAX_WORKERS
    ENABLE_STREAMING,       \* config.ENABLE_STREAMING
    now,                    \* the wall clock read by the checkpoint store
    last_call,              \* the latest direct call of the checkpoint store
    conn_pc,                \* per thread: position in its update_progress_paragraph call
    conn_call,              \* per thread: the arguments of that call
    db_writer,              \* 0 or the thread whose connection holds the write lock
    owner,                  \* per index: 0 or the thread that writes it directly
    supplied,               \* per index: the text its writer passed last
    doc,                    \* the pieces of the text given to split_into_paragraphs
    doc_min_length,         \* its min_length argument
    doc_max_size,           \* its max_paragraph_size argument
    segmented,              \* split_into_paragraphs has returned
    segments,               \* the list it returned
    lines,                  \* line-based resplitting: the lines of the text
    line_no,                \* the number of lines its loop has processed
    current_para,           \* the lines of the paragraph being accumulated
    potential_paragraphs,   \* the paragraphs it has closed
    consecutive_empty,      \* the empty lines seen in a row
    translation_stopped,    \* st.session_state.translation_stopped
    db_job, db_paragraphs,  \* the jobs row and the paragraphs rows of the file_id
    phase,                  \* idle | running | stopping | returned | stopped | completed
    run_kind,               \* fresh | resumed
    resume_from_index,
    translated_paragraphs,  \* result slots
    failed_paragraphs,      \* set of paragraph numbers (idx + 1)
    work_queue,             \* executor's FIFO of submitted, not yet started tasks
    future,                 \* per index: none | pending | running | done | error | cancelled
    yielded,                \* number of futures as_completed has handed out
    wpc, widx, attempt,     \* per worker thread: position, task, retry attempt
    progress_lock,          \* 0 or the worker holding it
    result,                 \* the joined text returned by translate
    progress_log,           \* completed_count of each progress_callback call of the run
    calls,                  \* provider calls per index in the run
    abandoned,              \* indices whose start-time stop_check returned true
    written,                \* indices upserted into the checkpoint in the run
    write_failed,           \* indices whose checkpoint write failed in the run
    assigned,               \* per index: writes of its result slot by tasks of the run
    auth_failed,            \* indices whose provider call raised an auth error in the run
    loaded,                 \* indices with a stored translation when the run started
    stop_while_incomplete,  \* stop was requested while a task had not completed
    stop_at_count           \* completed_count being reported when stop was requested, or 0

vars == <<client, MAX_WORKERS, ENABLE_STREAMING, now, last_call, conn_pc, conn_call,
          db_writer, owner, supplied, doc, doc_min_length, doc_max_size, segmented,
          segments, lines, line_no, current_para, potential_paragraphs,
          consecutive_empty, translation_stopped, db_job, db_paragraphs, phase,
          run_kind, resume_from_index, translated_paragraphs, failed_paragraphs,
          work_queue, future, yielded, wpc, widx, attempt, progress_lock, result,
          progress_log, calls, abandoned, written, write_failed, assigned, auth_failed, loaded,
          stop_while_incomplete, stop_at_count>>

connVars == <<conn_pc, conn_call, db_writer, owner, supplied>>
lineVars == <<lines, line_no, current_para, potential_paragraphs, consecutive_empty>>
segVars == <<doc, doc_min_length, doc_max_size, segmented, segments, lineVars>>
envVars == <<client, MAX_WORKERS, ENABLE_STREAMING, now, last_call, connVars, segVars>>
dbVars == <<db_job, db_paragraphs>>
configVars == <<client, MAX_WORKERS, ENABLE_STREAMING, segVars>>
runVars == <<translation_stopped, phase, run_kind, resume_from_index,
             translated_paragraphs, failed_paragraphs, work_queue, future, yielded,
             wpc, widx, attempt, progress_lock, result>>
histVars == <<progress_log, calls, abandoned, written, write_failed, assigned, auth_failed, loaded,
              stop_while_incomplete, stop_at_count>>

ActiveWorkers == 1..max_workers(MAX_WORKERS)

\* The state before the first run, for the client scripts, the settings of
\* config.MAX_WORKERS and the settings of config.ENABLE_STREAMING considered.
InitScheduler(behaviours, worker_settings, streaming_settings) ==
    /\ client \in [Paras -> behaviours]
    /\ MAX_WORKERS \in worker_settings
    /\ ENABLE_STREAMING \in streaming_settings
    /\ now = 0
    /\ last_call = NoCall
    /\ conn_pc = [c \in Workers |-> "idle"]
    /\ conn_call = [c \in Workers |-> NoCall]
    /\ db_writer = 0
    /\ owner = [i \in Paras |-> 0]
    /\ supplied = [i \in Paras |-> None]
    /\ translation_stopped = FALSE
    /\ db_job = NoJob
    /\ db_paragraphs = EmptyParagraphsTable
    /\ phase = "idle"
    /\ run_kind = "fresh"
    /\ resume_from_index = 0
    /\ translated_paragraphs = [i \in Paras |-> None]
    /\ failed_paragraphs = {}
    /\ work_queue = <<>>
    /\ future = [i \in Paras |-> "none"]
    /\ yielded = 0
    /\ wpc = [w \in Workers |-> "idle"]
    /\ widx = [w \in Workers |-> 0]
    /\ attempt = [w \in Workers |-> 0]
    /\ progress_lock = 0
    /\ result = <<>>
    /\ progress_log = <<>>
    /\ calls = [i \in Paras |-> 0]
    /\ abandoned = {}
    /\ written = {}
    /\ write_failed = {}
    /\ assigned = [i \in Paras |-> 0]
    /\ auth_failed = {}
    /\ loaded = {}
    /\ stop_while_incomplete = FALSE
    /\ stop_at_count = 0

\* No text was segmented yet.
InitSegmenter(min_lengths, max_sizes) ==
    /\ doc = <<>>
    /\ doc_min_length \in min_lengths
    /\ doc_max_size \in max_sizes
    /\ segmented = FALSE
    /\ segments = <<>>
    /\ lines = <<>>
    /\ line_no = 0
    /\ current_para = <<>>
    /\ potential_paragraphs = <<>>
    /\ consecutive_empty = 0

InitRun(behaviours, worker_settings, streaming_settings) ==
    /\ InitScheduler(behaviours, worker_settings, streaming_settings)
    /\ InitSegmenter({DefaultMinLength}, {DefaultMaxParagraphSize})

\* Non-streaming runs; checkpoint writes succeed.
Init == InitRun(Behaviours, 0..MaxWorkers, {FALSE})


\* ------------------------------------------------------- caller (app.py)
\* translate_text_gemini up to and including the submission of all tasks,
\* called with resume_from_index = r after the caller reset the stop flag.
BeginTranslate(r, job, rows) ==
    LET resuming == r > 0 /\ job.present
        rfi == IF resuming THEN r ELSE 0
        tasks == Tasks(rfi, total_paragraphs)
        taskSet == {tasks[k] : k \in 1..Len(tasks)}
    IN  /\ translation_stopped' = FALSE
        /\ phase' = "running"
        /\ run_kind' = IF resuming THEN "resumed" ELSE "fresh"
        /\ resume_from_index' = rfi
        /\ translated_paragraphs' = ResumeSlots(rfi, job, rows)
        /\ failed_paragraphs' = {}
        /\ work_queue' = tasks
        /\ future' = [i \in Paras |-> IF i \in taskSet THEN "pending" ELSE "none"]
        /\ yielded' = 0
        /\ wpc' = [w \in Workers |-> "idle"]
        /\ widx' = [w \in Workers |-> 0]
        /\ attempt' = [w \in Workers |-> 0]
        /\ progress_lock' = 0
        /\ result' = <<>>
        /\ progress_log' = <<>>
        /\ calls' = [i \in Paras |-> 0]
        /\ abandoned' = {}
        /\ written' = {}
        /\ write_failed' = {}
        /\ assigned' = [i \in Paras |-> 0]
        /\ auth_failed' = {}
        /\ loaded' = LoadedTranslated(job, rows)
        /\ stop_while_incomplete' = FALSE
        /\ stop_at_count' = 0

\* First start of the job, or a new start after the job completed.
StartTranslation ==
    /\ phase \in {"idle", "completed"}
    /\ BeginTranslate(0, db_job, db_paragraphs)
    /\ UNCHANGED <<envVars, dbVars>>

\* "Resume" after a stop: resume_from_index = completed_paragraphs of the
\* loaded progress (0 when none was stored).
ResumeTranslation ==
    /\ phase = "stopped"
    /\ BeginTranslate(LoadCompleted(db_job, db_paragraphs), db_job, db_paragraphs)
    /\ UNCHANGED <<envVars, dbVars>>

\* "Start fresh": delete_progress, then a run from index 0.
StartFresh ==
    /\ phase = "stopped"
    /\ db_job.present
    /\ db_job' = NoJob
    /\ db_paragraphs' = EmptyParagraphsTable
    /\ BeginTranslate(0, NoJob, EmptyParagraphsTable)
    /\ UNCHANGED envVars

\* The user presses stop while the job runs.
RequestStop ==
    /\ phase = "running"
    /\ ~translation_stopped
    /\ translation_stopped' = TRUE
    /\ stop_while_incomplete' = (\E i \in Paras : future[i] \in {"pending", "running"})
    /\ stop_at_count' = IF \E w \in Workers : wpc[w] = "cb"
                        THEN progress_log[Len(progress_log)] ELSE 0
    /\ UNCHANGED <<envVars, dbVars, phase, run_kind, resume_from_index,
                   translated_paragraphs, failed_paragraphs, work_queue, future,
                   yielded, wpc, widx, attempt, progress_lock, result,
                   progress_log, calls, abandoned, written, write_failed, assigned, auth_failed,
                   loaded>>

\* Mutation: the caller finishes the job without deleting its progress.
CompleteJobKeepingProgress ==
    /\ phase = "returned"
    /\ phase' = "completed"
    /\ UNCHANGED <<envVars, dbVars, translation_stopped, run_kind, resume_from_index,
                   translated_paragraphs, failed_paragraphs, work_queue, future,
                   yielded, wpc, widx, attempt, progress_lock, result, histVars>>

\* After translate returned: PDF is produced and the progress is deleted.
CompleteJob ==
    /\ phase = "returned"
    /\ phase' = "completed"
    /\ db_job' = NoJob
    /\ db_paragraphs' = EmptyParagraphsTable
    /\ UNCHANGED <<envVars, translation_stopped, run_kind, resume_from_index,
                   translated_paragraphs, failed_paragraphs, work_queue, future,
                   yielded, wpc, widx, attempt, progress_lock, result, histVars>>

\* ------------------------------------------------------- worker threads
\* A pool thread takes the next work item off the executor's queue.  Idle pool
\* threads are interchangeable: the lowest-numbered idle one takes the item.
Dequeue(w) ==
    /\ w \in ActiveWorkers
    /\ wpc[w] = "idle"
    /\ \A v \in ActiveWorkers : v < w => wpc[v] # "idle"
    /\ work_queue # <<>>
    /\ widx' = [widx EXCEPT ![w] = Head(work_queue)]
    /\ work_queue' = Tail(work_queue)
    /\ future' = [future EXCEPT ![Head(work_queue)] = "running"]
    /\ wpc' = [wpc EXCEPT ![w] = "start"]
    /\ UNCHANGED <<envVars, dbVars, translation_stopped, phase, run_kind,
                   resume_from_index, translated_paragraphs, failed_paragraphs,
                   yielded, attempt, progress_lock, result, histVars>>

\* Where a task enters the retry loop: the local `stream` of
\* translate_paragraph_gemini is part of the position ("call_stream" and
\* "streaming" while it is true, "call" once it is false).
CallPosition(stream) == IF stream THEN "call_stream" ELSE "call"

\* Mutation: the task notes the stop but goes on to the provider call.
StartCheckIgnoringStop(w) ==
    /\ wpc[w] = "start"
    /\ wpc' = [wpc EXCEPT ![w] = CallPosition(ENABLE_STREAMING)]
    /\ attempt' = [attempt EXCEPT ![w] = 0]
    /\ abandoned' = IF translation_stopped THEN abandoned \cup {widx[w]} ELSE abandoned
    /\ UNCHANGED <<envVars, dbVars, translation_stopped, phase, run_kind,
                   resume_from_index, translated_paragraphs, failed_paragraphs,
                   work_queue, future, yielded, widx, progress_lock, result,
                   progress_log, calls, written, write_failed, assigned, auth_failed, loaded,
                   stop_while_incomplete, stop_at_count>>

\* process_paragraph: the stop_check at the start of the task.
StartCheck(w) ==
    /\ wpc[w] = "start"
    /\ IF translation_stopped
       THEN /\ wpc' = [wpc EXCEPT ![w] = "idle"]
            /\ widx' = [widx EXCEPT ![w] = 0]
            /\ future' = [future EXCEPT ![widx[w]] = "done"]
            /\ abandoned' = abandoned \cup {widx[w]}
            /\ UNCHANGED attempt
       ELSE /\ wpc' = [wpc EXCEPT ![w] = CallPosition(ENABLE_STREAMING)]
            /\ attempt' = [attempt EXCEPT ![w] = 0]
            /\ UNCHANGED <<widx, future, abandoned>>
    /\ UNCHANGED <<envVars, dbVars, translation_stopped, phase, run_kind,
                   resume_from_index, translated_paragraphs, failed_paragraphs,
                   work_queue, yielded, progress_lock, result,
                   progress_log, calls, written, write_failed, assigned, auth_failed, loaded,
                   stop_while_incomplete, stop_at_count>>

\* translate_paragraph_gemini: one pass of the retry loop, i.e. one provider
\* call and the handling of its outcome.
ProviderCall(w) ==
    /\ wpc[w] = "call"
    /\ calls' = [calls EXCEPT ![widx[w]] = @ + 1]
    /\ \E out \in ClientOutcomes(client[widx[w]], attempt[w]) :
         IF out = "ok"
         THEN /\ wpc' = [wpc EXCEPT ![w] = "commit"]
              /\ attempt' = [attempt EXCEPT ![w] = 0]
              /\ UNCHANGED <<widx, future, auth_failed>>
         ELSE LET d == RetryDecision(out, attempt[w], MAX_RETRIES) IN
              CASE d = "retry" ->
                     /\ attempt' = [attempt EXCEPT ![w] = @ + 1]
                     /\ UNCHANGED <<wpc, widx, future, auth_failed>>
                [] d = "raise_value_error" ->
                     \* except ValueError: raise e  -- the future holds the exception
                     /\ wpc' = [wpc EXCEPT ![w] = "idle"]
                     /\ widx' = [widx EXCEPT ![w] = 0]
                     /\ attempt' = [attempt EXCEPT ![w] = 0]
                     /\ future' = [future EXCEPT ![widx[w]] = "error"]
                     /\ auth_failed' = auth_failed \cup {widx[w]}
                [] d = "raise_exception" ->
                     /\ wpc' = [wpc EXCEPT ![w] = "softfail"]
                     /\ attempt' = [attempt EXCEPT ![w] = 0]
                     /\ UNCHANGED <<widx, future, auth_failed>>
    /\ UNCHANGED <<envVars, dbVars, translation_stopped, phase, run_kind,
                   resume_from_index, translated_paragraphs, failed_paragraphs,
                   work_queue, yielded, progress_lock, result,
                   progress_log, abandoned, written, write_failed, assigned, loaded,
                   stop_while_incomplete, stop_at_count>>

\* Streaming mode: generate_content(prompt, stream=True).  The provider is
\* external: a failing call raises either from generate_content itself, which
\* the retry loop's except-branch classifies, or later, while the response is
\* iterated.
StreamCall(w) ==
    /\ wpc[w] = "call_stream"
    /\ calls' = [calls EXCEPT ![widx[w]] = @ + 1]
    /\ \E out \in ClientOutcomes(client[widx[w]], attempt[w]) :
         \/ \* the response is handed back and iterated
            /\ wpc' = [wpc EXCEPT ![w] = "streaming"]
            /\ UNCHANGED <<widx, attempt, future, auth_failed>>
         \/ /\ out # "ok"
            /\ LET d == RetryDecision(out, attempt[w], MAX_RETRIES) IN
               CASE d = "retry" ->
                      /\ attempt' = [attempt EXCEPT ![w] = @ + 1]
                      /\ UNCHANGED <<wpc, widx, future, auth_failed>>
                 [] d = "raise_value_error" ->
                      /\ wpc' = [wpc EXCEPT ![w] = "idle"]
                      /\ widx' = [widx EXCEPT ![w] = 0]
                      /\ attempt' = [attempt EXCEPT ![w] = 0]
                      /\ future' = [future EXCEPT ![widx[w]] = "error"]
                      /\ auth_failed' = auth_failed \cup {widx[w]}
                 [] d = "raise_exception" ->
                      /\ wpc' = [wpc EXCEPT ![w] = "softfail"]
                      /\ attempt' = [attempt EXCEPT ![w] = 0]
                      /\ UNCHANGED <<widx, future, auth_failed>>
    /\ UNCHANGED <<envVars, dbVars, translation_stopped, phase, run_kind,
                   resume_from_index, translated_paragraphs, failed_paragraphs,
                   work_queue, yielded, progress_lock, result,
                   progress_log, abandoned, written, write_failed, assigned, loaded,
                   stop_while_incomplete, stop_at_count>>

\* A chunk arrives: paragraph_stream_callback takes progress_lock, builds the
\* joined view and calls stream_callback while holding the lock.
StreamChunk(w) ==
    /\ wpc[w] = "streaming"
    /\ progress_lock = 0
    /\ progress_lock' = w
    /\ wpc' = [wpc EXCEPT ![w] = "stream_cb"]
    /\ UNCHANGED <<envVars, dbVars, translation_stopped, phase, run_kind,
                   resume_from_index, translated_paragraphs, failed_paragraphs,
                   work_queue, future, yielded, widx, attempt, result, histVars>>

\* Mutation: the lock is still held when the iteration of the response goes on.
StreamCallbackReturnKeepingLock(w) ==
    /\ wpc[w] = "stream_cb"
    /\ progress_lock = w
    /\ wpc' = [wpc EXCEPT ![w] = "streaming"]
    /\ UNCHANGED <<envVars, dbVars, translation_stopped, phase, run_kind,
                   resume_from_index, translated_paragraphs, failed_paragraphs,
                   work_queue, future, yielded, widx, attempt, progress_lock, result,
                   histVars>>

\* stream_callback returns; the lock is released and the iteration goes on.
StreamCallbackReturn(w) ==
    /\ wpc[w] = "stream_cb"
    /\ progress_lock = w
    /\ progress_lock' = 0
    /\ wpc' = [wpc EXCEPT ![w] = "streaming"]
    /\ UNCHANGED <<envVars, dbVars, translation_stopped, phase, run_kind,
                   resume_from_index, translated_paragraphs, failed_paragraphs,
                   work_queue, future, yielded, widx, attempt, result, histVars>>

\* The response is exhausted with accumulated text: the translation is returned.
StreamEnd(w) ==
    /\ wpc[w] = "streaming"
    /\ "ok" \in ClientOutcomes(client[widx[w]], attempt[w])
    /\ wpc' = [wpc EXCEPT ![w] = "commit"]
    /\ attempt' = [attempt EXCEPT ![w] = 0]
    /\ UNCHANGED <<envVars, dbVars, translation_stopped, phase, run_kind,
                   resume_from_index, translated_paragraphs, failed_paragraphs,
                   work_queue, future, yielded, widx, progress_lock, result,
                   histVars>>

\* The iteration raises: except Exception as stream_error sets stream = False
\* and the same attempt goes on to the non-streaming call.  The error is not
\* classified; when it is an authentication error the index is noted.
StreamFallback(w) ==
    /\ wpc[w] = "streaming"
    /\ \E out \in ClientOutcomes(client[widx[w]], attempt[w]) :
         /\ out # "ok"
         /\ auth_failed' = IF out = "auth" THEN auth_failed \cup {widx[w]}
                           ELSE auth_failed
    /\ wpc' = [wpc EXCEPT ![w] = "call"]
    /\ UNCHANGED <<envVars, dbVars, translation_stopped, phase, run_kind,
                   resume_from_index, translated_paragraphs, failed_paragraphs,
                   work_queue, future, yielded, widx, attempt, progress_lock,
                   result, progress_log, calls, abandoned, written, write_failed,
                   assigned, loaded, stop_while_incomplete, stop_at_count>>

\* Mutation: the failure of the checkpoint write escapes to the task's
\* except-branch.
CommitResultWriteRaises(w) ==
    /\ wpc[w] = "commit"
    /\ write_failed' = write_failed \cup {widx[w]}
    /\ wpc' = [wpc EXCEPT ![w] = "softfail"]
    /\ UNCHANGED <<envVars, dbVars, translation_stopped, phase, run_kind,
                   resume_from_index, translated_paragraphs, failed_paragraphs,
                   work_queue, future, yielded, widx, attempt, progress_lock,
                   result, progress_log, calls, abandoned, written, assigned,
                   auth_failed, loaded, stop_while_incomplete, stop_at_count>>

\* update_progress_paragraph fails (it logs the error and returns False):
\* nothing is stored, the slot, the count and the callback are as on success.
CommitResultWriteFails(w) ==
    /\ wpc[w] = "commit"
    /\ progress_lock = 0
    /\ progress_lock' = w
    /\ translated_paragraphs' = [translated_paragraphs EXCEPT ![widx[w]] = Tr(widx[w])]
    /\ write_failed' = write_failed \cup {widx[w]}
    /\ assigned' = [assigned EXCEPT ![widx[w]] = @ + 1]
    /\ progress_log' = Append(progress_log, CompletedCount(translated_paragraphs'))
    /\ wpc' = [wpc EXCEPT ![w] = "cb"]
    /\ UNCHANGED <<envVars, dbVars, translation_stopped, phase, run_kind,
                   resume_from_index, failed_paragraphs, work_queue, future,
                   yielded, widx, attempt, result, calls, abandoned, written,
                   auth_failed, loaded, stop_while_incomplete, stop_at_count>>

\* Mutation: the lock is released before progress_callback is called.
CommitResultThenUnlock(w) ==
    /\ wpc[w] = "commit"
    /\ progress_lock = 0
    /\ progress_lock' = 0
    /\ translated_paragraphs' = [translated_paragraphs EXCEPT ![widx[w]] = Tr(widx[w])]
    /\ db_job' = UpsertJob(db_job, source_lang, target_lang, model_name,
                            Cardinality(DOMAIN paragraphs), now)
    /\ db_paragraphs' = UpsertParagraph(db_paragraphs, widx[w],
                                        paragraphs[widx[w]], Tr(widx[w]))
    /\ written' = written \cup {widx[w]}
    /\ assigned' = [assigned EXCEPT ![widx[w]] = @ + 1]
    /\ progress_log' = Append(progress_log, CompletedCount(translated_paragraphs'))
    /\ wpc' = [wpc EXCEPT ![w] = "cb"]
    /\ UNCHANGED <<envVars, translation_stopped, phase, run_kind, resume_from_index,
                   failed_paragraphs, work_queue, future, yielded, widx, attempt,
                   result, calls, abandoned, write_failed, auth_failed, loaded,
                   stop_while_incomplete, stop_at_count>>

\* with progress_lock: slot write, checkpoint upsert, completed_count, and the
\* call of progress_callback (which runs while the lock is held).
CommitResult(w) ==
    /\ wpc[w] = "commit"
    /\ progress_lock = 0
    /\ progress_lock' = w
    /\ translated_paragraphs' = [translated_paragraphs EXCEPT ![widx[w]] = Tr(widx[w])]
    /\ db_job' = UpsertJob(db_job, source_lang, target_lang, model_name,
                            Cardinality(DOMAIN paragraphs), now)
    /\ db_paragraphs' = UpsertParagraph(db_paragraphs, widx[w],
                                        paragraphs[widx[w]], Tr(widx[w]))
    /\ written' = written \cup {widx[w]}
    /\ assigned' = [assigned EXCEPT ![widx[w]] = @ + 1]
    /\ progress_log' = Append(progress_log, CompletedCount(translated_paragraphs'))
    /\ wpc' = [wpc EXCEPT ![w] = "cb"]
    /\ UNCHANGED <<envVars, translation_stopped, phase, run_kind, resume_from_index,
                   failed_paragraphs, work_queue, future, yielded, widx, attempt,
                   result, calls, abandoned, write_failed, auth_failed, loaded,
                   stop_while_incomplete, stop_at_count>>

\* Mutation: progress_callback raises; the with-block ends and the task's
\* except-branch takes over.
ProgressCallbackRaises(w) ==
    /\ wpc[w] = "cb"
    /\ progress_lock = w
    /\ progress_lock' = 0
    /\ wpc' = [wpc EXCEPT ![w] = "softfail"]
    /\ UNCHANGED <<envVars, dbVars, translation_stopped, phase, run_kind,
                   resume_from_index, translated_paragraphs, failed_paragraphs,
                   work_queue, future, yielded, widx, attempt, result, histVars>>

\* Mutation: the task returns without releasing the lock.
ProgressCallbackReturnKeepingLock(w) ==
    /\ wpc[w] = "cb"
    /\ progress_lock = w
    /\ wpc' = [wpc EXCEPT ![w] = "idle"]
    /\ widx' = [widx EXCEPT ![w] = 0]
    /\ future' = [future EXCEPT ![widx[w]] = "done"]
    /\ UNCHANGED <<envVars, dbVars, translation_stopped, phase, run_kind,
                   resume_from_index, translated_paragraphs, failed_paragraphs,
                   work_queue, yielded, attempt, progress_lock, result, histVars>>

\* progress_callback returns; the with-block ends and the task returns.
ProgressCallbackReturn(w) ==
    /\ wpc[w] = "cb"
    /\ progress_lock = w
    /\ progress_lock' = 0
    /\ wpc' = [wpc EXCEPT ![w] = "idle"]
    /\ widx' = [widx EXCEPT ![w] = 0]
    /\ future' = [future EXCEPT ![widx[w]] = "done"]
    /\ UNCHANGED <<envVars, dbVars, translation_stopped, phase, run_kind,
                   resume_from_index, translated_paragraphs, failed_paragraphs,
                   work_queue, yielded, attempt, result, histVars>>

\* Mutation: the except-branch stores the error-annotated text as well.
SoftFailStoringErrorText(w) ==
    /\ wpc[w] = "softfail"
    /\ progress_lock = 0
    /\ translated_paragraphs' = [translated_paragraphs EXCEPT ![widx[w]] = ErrorText(widx[w])]
    /\ failed_paragraphs' = failed_paragraphs \cup {widx[w] + 1}
    /\ db_job' = UpsertJob(db_job, source_lang, target_lang, model_name,
                            Cardinality(DOMAIN paragraphs), now)
    /\ db_paragraphs' = UpsertParagraph(db_paragraphs, widx[w],
                                        paragraphs[widx[w]], ErrorText(widx[w]))
    /\ assigned' = [assigned EXCEPT ![widx[w]] = @ + 1]
    /\ wpc' = [wpc EXCEPT ![w] = "idle"]
    /\ widx' = [widx EXCEPT ![w] = 0]
    /\ future' = [future EXCEPT ![widx[w]] = "done"]
    /\ UNCHANGED <<envVars, translation_stopped, phase, run_kind,
                   resume_from_index, work_queue, yielded, attempt,
                   progress_lock, result, progress_log, calls, abandoned, written, write_failed,
                   auth_failed, loaded, stop_while_incomplete, stop_at_count>>

\* except Exception: the slot gets the original text plus the error marker.
SoftFail(w) ==
    /\ wpc[w] = "softfail"
    /\ progress_lock = 0
    /\ translated_paragraphs' = [translated_paragraphs EXCEPT ![widx[w]] = ErrorText(widx[w])]
    /\ failed_paragraphs' = failed_paragraphs \cup {widx[w] + 1}
    /\ assigned' = [assigned EXCEPT ![widx[w]] = @ + 1]
    /\ wpc' = [wpc EXCEPT ![w] = "idle"]
    /\ widx' = [widx EXCEPT ![w] = 0]
    /\ future' = [future EXCEPT ![widx[w]] = "done"]
    /\ UNCHANGED <<envVars, dbVars, translation_stopped, phase, run_kind,
                   resume_from_index, work_queue, yielded, attempt,
                   progress_lock, result, progress_log, calls, abandoned, written, write_failed,
                   auth_failed, loaded, stop_while_incomplete, stop_at_count>>

\* ---------------------------------------------------------- main thread
\* Futures as_completed can hand out: finished with a result or an exception.
NumFinished(fut) == Cardinality({i \in Paras : fut[i] \in {"done", "error"}})
NumSubmitted(fut) == Cardinality({i \in Paras : fut[i] # "none"})

\* Mutation: the loop never looks at stop_check.
AsCompletedNextIgnoringStop ==
    /\ phase = "running"
    /\ yielded < NumFinished(future)
    /\ yielded' = yielded + 1
    /\ UNCHANGED <<envVars, dbVars, translation_stopped, phase, run_kind,
                   resume_from_index, translated_paragraphs, failed_paragraphs,
                   work_queue, future, wpc, widx, attempt, progress_lock, result,
                   histVars>>

\* Mutation: on the stop signal the exception reaches the caller at once,
\* the pool threads are not waited for.
AsCompletedNextRaisingAtOnce ==
    /\ phase = "running"
    /\ yielded < NumFinished(future)
    /\ IF translation_stopped
       THEN /\ phase' = "stopped"
            /\ work_queue' = <<>>
            /\ future' = [j \in Paras |->
                            IF future[j] = "pending" THEN "cancelled" ELSE future[j]]
            /\ UNCHANGED yielded
       ELSE /\ yielded' = yielded + 1
            /\ UNCHANGED <<phase, work_queue, future>>
    /\ UNCHANGED <<envVars, dbVars, translation_stopped, run_kind, resume_from_index,
                   translated_paragraphs, failed_paragraphs, wpc, widx, attempt,
                   progress_lock, result, histVars>>

\* One iteration of the as_completed loop on a finished future.  The loop body
\* uses the future only through result(), whose exception it logs, so the
\* futures handed out so far are counted, not named.
AsCompletedNext ==
    /\ phase = "running"
    /\ yielded < NumFinished(future)
    /\ IF translation_stopped
       THEN \* executor.shutdown(wait=False, cancel_futures=True); raise
            /\ phase' = "stopping"
            /\ work_queue' = <<>>
            /\ future' = [j \in Paras |->
                            IF future[j] = "pending" THEN "cancelled" ELSE future[j]]
            /\ UNCHANGED yielded
       ELSE \* future.result(); an exception of the task is logged
            /\ yielded' = yielded + 1
            /\ UNCHANGED <<phase, work_queue, future>>
    /\ UNCHANGED <<envVars, dbVars, translation_stopped, run_kind, resume_from_index,
                   translated_paragraphs, failed_paragraphs, wpc, widx, attempt,
                   progress_lock, result, histVars>>

\* The loop is exhausted: the executor is joined and the text is returned.
ReturnText ==
    /\ phase = "running"
    /\ yielded = NumSubmitted(future)
    /\ phase' = "returned"
    /\ result' = JoinText(translated_paragraphs)
    /\ UNCHANGED <<envVars, dbVars, translation_stopped, run_kind, resume_from_index,
                   translated_paragraphs, failed_paragraphs, work_queue, future,
                   yielded, wpc, widx, attempt, progress_lock, histVars>>

\* Mutation: the stop signal reaches the caller without the pool being joined.
RaiseStoppedWithoutJoin ==
    /\ phase = "stopping"
    /\ phase' = "stopped"
    /\ UNCHANGED <<envVars, dbVars, translation_stopped, run_kind, resume_from_index,
                   translated_paragraphs, failed_paragraphs, work_queue, future,
                   yielded, wpc, widx, attempt, progress_lock, result, histVars>>

\* Leaving the with-block joins the pool threads (shutdown(wait=True)); then
\* TranslationStoppedException reaches the caller.
RaiseStopped ==
    /\ phase = "stopping"
    /\ \A w \in Workers : wpc[w] = "idle"
    /\ phase' = "stopped"
    /\ UNCHANGED <<envVars, dbVars, translation_stopped, run_kind, resume_from_index,
                   translated_paragraphs, failed_paragraphs, work_queue, future,
                   yielded, wpc, widx, attempt, progress_lock, result, histVars>>

WorkerStep(w) ==
    \/ Dequeue(w)
    \/ StartCheck(w)
    \/ ProviderCall(w)
    \/ CommitResult(w)
    \/ ProgressCallbackReturn(w)
    \/ SoftFail(w)

Next ==
    \/ StartTranslation
    \/ ResumeTranslation
    \/ StartFresh
    \/ RequestStop
    \/ CompleteJob
    \/ AsCompletedNext
    \/ ReturnText
    \/ RaiseStopped
    \/ \E w \in Workers : WorkerStep(w)

Spec == Init /\ [][Next]_vars

\* One run: from the first start of the job until translate hands control back.
FirstStart ==
    /\ phase = "idle"
    /\ StartTranslation

NextOneRun ==
    \/ FirstStart
    \/ RequestStop
    \/ AsCompletedNext
    \/ ReturnText
    \/ RaiseStopped
    \/ \E w \in Workers : WorkerStep(w)

\* The pool has MaxWorkers threads; a paragraph's provider calls succeed, keep
\* failing or fail with the authentication error.
InitOneRun == InitRun({"ok", "fail", "auth"}, {MaxWorkers}, {FALSE})

SpecOneRun == InitOneRun /\ [][NextOneRun]_vars

\* One run for every setting of MAX_WORKERS, the values below 1 included.
InitPool == InitRun({"ok", "fail", "auth"}, 0..MaxWorkers, {FALSE})

SpecPool == InitPool /\ [][NextOneRun]_vars

\* Runs whose provider calls fail transiently: on the first attempts of a
\* paragraph, or on all of them.
InitFlaky == InitRun({"fail"} \cup FlakyBehaviours, 1..MaxWorkers, {FALSE})

SpecFlaky == InitFlaky /\ [][Next]_vars

\* Runs in streaming and in non-streaming mode, with one pool thread: the
\* retry loop is the sequential code of one task.
InitStream == InitRun(Behaviours, {1}, BOOLEAN)

StreamStep(w) ==
    \/ StreamCall(w)
    \/ StreamChunk(w)
    \/ StreamCallbackReturn(w)
    \/ StreamEnd(w)
    \/ StreamFallback(w)

NextStream ==
    \/ Next
    \/ \E w \in Workers : StreamStep(w)

SpecStream == InitStream /\ [][NextStream]_vars

\* One run in streaming mode with MaxWorkers pool threads.
InitStreamPool == InitRun({"ok", "fail"}, {MaxWorkers}, {TRUE})

NextStreamPool ==
    \/ NextOneRun
    \/ \E w \in Workers : StreamStep(w)

SpecStreamPool == InitStreamPool /\ [][NextStreamPool]_vars

\* ------------------------------------------- direct use of the store
\* The paragraph lists a caller passes for the file_id.
OriginalLists == {paragraphs, AltParagraphs}

\* The texts a caller stores for paragraph idx.
StoreTexts(idx) == {Tr(idx), EmptyText}

\* update_progress_paragraph(file_id, paragraph_idx, translated_text,
\* original_paragraphs, source_lang, target_lang, model_name) for the job's
\* file_id and paragraph list; the two statements and the commit are one step
\* of the calling thread's connection.
update_progress_paragraph(idx, text, originals, settings) ==
    /\ db_job' = UpsertJob(db_job, settings.source_lang, settings.target_lang,
                            settings.model_name, Cardinality(DOMAIN originals), now)
    /\ db_paragraphs' = UpsertParagraph(db_paragraphs, idx,
                                        OriginalText(originals, idx), text)
    /\ last_call' = [op |-> "upsert", idx |-> idx, text |-> text,
                     settings |-> settings]
    /\ UNCHANGED <<configVars, now, connVars, runVars, histVars>>

\* delete_progress(file_id)
delete_progress ==
    /\ db_job' = NoJob
    /\ db_paragraphs' = EmptyParagraphsTable
    /\ last_call' = [NoCall EXCEPT !.op = "delete"]
    /\ UNCHANGED <<configVars, now, connVars, runVars, histVars>>

\* Time passes between calls.
Tick ==
    /\ now < MaxTime
    /\ now' = now + 1
    /\ UNCHANGED <<configVars, last_call, connVars, dbVars, runVars, histVars>>

InitStore == InitRun({"ok"}, {1}, {FALSE})

NextStore ==
    \/ \E idx \in Paras : \E text \in StoreTexts(idx) :
         \E originals \in OriginalLists : \E settings \in JobSettings :
            update_progress_paragraph(idx, text, originals, settings)
    \/ delete_progress
    \/ Tick

SpecStore == InitStore /\ [][NextStore]_vars

\* ------------------------- calls of the store by several threads at once
\* Each thread has its own connection (get_connection is thread-local).  A
\* thread enters update_progress_paragraph for an index no other thread
\* writes.
EnterUpdate(c, idx, text) ==
    /\ conn_pc[c] = "idle"
    /\ owner[idx] \in {0, c}
    /\ conn_pc' = [conn_pc EXCEPT ![c] = "entered"]
    /\ conn_call' = [conn_call EXCEPT ![c] =
                         [op |-> "upsert", idx |-> idx, text |-> text,
                          settings |-> RunSettings]]
    /\ owner' = [owner EXCEPT ![idx] = c]
    /\ supplied' = [supplied EXCEPT ![idx] = text]
    /\ UNCHANGED <<configVars, now, last_call, db_writer, dbVars, runVars, histVars>>

\* INSERT INTO jobs ... ON CONFLICT: the first write statement of the
\* connection's transaction takes the database's write lock, for which it
\* waits (timeout=30.0) while another connection holds it.
ExecJobUpsert(c) ==
    /\ conn_pc[c] = "entered"
    /\ db_writer = 0
    /\ db_writer' = c
    /\ db_job' = UpsertJob(db_job, conn_call[c].settings.source_lang,
                            conn_call[c].settings.target_lang,
                            conn_call[c].settings.model_name,
                            Cardinality(DOMAIN paragraphs), now)
    /\ conn_pc' = [conn_pc EXCEPT ![c] = "job_done"]
    /\ UNCHANGED <<configVars, now, last_call, conn_call, owner, supplied,
                   db_paragraphs, runVars, histVars>>

\* Mutation: the paragraphs table is written anew with the one row.
ExecParagraphUpsertAlone(c) ==
    /\ conn_pc[c] = "job_done"
    /\ db_paragraphs' = UpsertParagraph(EmptyParagraphsTable, conn_call[c].idx,
                                        OriginalText(paragraphs, conn_call[c].idx),
                                        conn_call[c].text)
    /\ conn_pc' = [conn_pc EXCEPT ![c] = "paragraph_done"]
    /\ UNCHANGED <<configVars, now, last_call, conn_call, db_writer, owner, supplied,
                   db_job, runVars, histVars>>

\* INSERT INTO paragraphs ... ON CONFLICT
ExecParagraphUpsert(c) ==
    /\ conn_pc[c] = "job_done"
    /\ db_paragraphs' = UpsertParagraph(db_paragraphs, conn_call[c].idx,
                                        OriginalText(paragraphs, conn_call[c].idx),
                                        conn_call[c].text)
    /\ conn_pc' = [conn_pc EXCEPT ![c] = "paragraph_done"]
    /\ UNCHANGED <<configVars, now, last_call, conn_call, db_writer, owner, supplied,
                   db_job, runVars, histVars>>

\* conn.commit(): the transaction ends and the write lock is released.
CommitUpdate(c) ==
    /\ conn_pc[c] = "paragraph_done"
    /\ db_writer = c
    /\ db_writer' = 0
    /\ conn_pc' = [conn_pc EXCEPT ![c] = "idle"]
    /\ conn_call' = [conn_call EXCEPT ![c] = NoCall]
    /\ UNCHANGED <<configVars, now, last_call, owner, supplied, dbVars, runVars,
                   histVars>>

InitStoreThreads == InitRun({"ok"}, {MaxWorkers}, {FALSE})

NextStoreThreads ==
    \E c \in Workers :
        \/ \E idx \in Paras : \E text \in StoreTexts(idx) : EnterUpdate(c, idx, text)
        \/ ExecJobUpsert(c)
        \/ ExecParagraphUpsert(c)
        \/ CommitUpdate(c)

SpecStoreThreads == InitStoreThreads /\ [][NextStoreThreads]_vars

\* ------------------------------------------ calls of the segmenter alone
text == Flatten(doc)

AddPiece(piece) ==
    /\ ~segmented
    /\ Len(doc) < MaxPieces
    /\ doc' = Append(doc, piece)
    /\ UNCHANGED <<client, MAX_WORKERS, ENABLE_STREAMING, now, last_call, connVars,
                   doc_min_length, doc_max_size, segmented, segments, lineVars, dbVars,
                   runVars, histVars>>

SplitIntoParagraphs ==
    /\ ~segmented
    /\ segments' = split_into_paragraphs(text, doc_min_length, doc_max_size)
    /\ segmented' = TRUE
    /\ UNCHANGED <<client, MAX_WORKERS, ENABLE_STREAMING, now, last_call, connVars,
                   doc, doc_min_length, doc_max_size, lineVars, dbVars, runVars,
                   histVars>>

InitSegment ==
    /\ InitScheduler({"ok"}, {1}, {FALSE})
    /\ InitSegmenter(MinLengths, MaxSizes)

NextSegment ==
    \/ \E piece \in Pieces : AddPiece(piece)
    \/ SplitIntoParagraphs

SpecSegment == InitSegment /\ [][NextSegment]_vars

\* ------------------------------- line-based resplitting, line by line
\* The loop over the lines of a text that the blank-line split left as one
\* paragraph larger than max_paragraph_size.  The lines are long enough for
\* the accumulated paragraph to reach substantial_threshold.
MaxLines == 5
LongLineLength == 400
SentenceLine == [i \in 1..LongLineLength |-> IF i = LongLineLength THEN "." ELSE "a"]
LinePieces == {SentenceLine, <<"1", ".", " ", "a">>, <<"1", "a">>, <<"A">>, <<" ">>}
LineMaxSizes == {1200, DefaultMaxParagraphSize}

\* '\n'.join(lines)
RECURSIVE JoinLines(_)
JoinLines(ls) ==
    IF ls = <<>> THEN <<>>
    ELSE IF Len(ls) = 1 THEN ls[1]
    ELSE ls[1] \o <<NL>> \o JoinLines(Tail(ls))

\* No line is empty, so that text.split('\n\n') gives one fragment, and the
\* cleaned fragment is larger than max_paragraph_size.
NeedsLineSplitting ==
    LET para == NormalizeWhitespace(strip(JoinLines(lines))) IN
    /\ \A k \in 1..Len(lines) : lines[k] # <<>>
    /\ Len(para) >= doc_min_length
    /\ Len(para) > doc_max_size

AddLine(line) ==
    /\ ~segmented
    /\ line_no = 0
    /\ Len(lines) < MaxLines
    /\ lines' = Append(lines, line)
    /\ UNCHANGED <<client, MAX_WORKERS, ENABLE_STREAMING, now, last_call, connVars,
                   doc, doc_min_length, doc_max_size, segmented, segments, line_no,
                   current_para, potential_paragraphs, consecutive_empty, dbVars,
                   runVars, histVars>>

\* One iteration of "for line in lines".
LineStep ==
    /\ ~segmented
    /\ NeedsLineSplitting
    /\ line_no < Len(lines)
    /\ line_no' = line_no + 1
    /\ LET line_stripped == strip(lines[line_no + 1]) IN
       IF line_stripped = <<>>
       THEN /\ consecutive_empty' = consecutive_empty + 1
            /\ IF consecutive_empty + 1 >= 2 /\ current_para # <<>>
               THEN /\ potential_paragraphs' =
                          FlushLines(potential_paragraphs, current_para, doc_min_length)
                    /\ current_para' = <<>>
               ELSE UNCHANGED <<potential_paragraphs, current_para>>
       ELSE /\ consecutive_empty' = 0
            /\ IF should_start_new(current_para, line_stripped, doc_max_size)
               THEN /\ potential_paragraphs' =
                          FlushLines(potential_paragraphs, current_para, doc_min_length)
                    /\ current_para' = <<line_stripped>>
               ELSE /\ current_para' = Append(current_para, line_stripped)
                    /\ UNCHANGED potential_paragraphs
    /\ UNCHANGED <<client, MAX_WORKERS, ENABLE_STREAMING, now, last_call, connVars,
                   doc, doc_min_length, doc_max_size, segmented, segments, lines,
                   dbVars, runVars, histVars>>

\* "Add the last paragraph", after the loop.
LineEnd ==
    /\ ~segmented
    /\ NeedsLineSplitting
    /\ line_no = Len(lines)
    /\ potential_paragraphs' =
          IF current_para # <<>>
          THEN FlushLines(potential_paragraphs, current_para, doc_min_length)
          ELSE potential_paragraphs
    /\ segmented' = TRUE
    /\ UNCHANGED <<client, MAX_WORKERS, ENABLE_STREAMING, now, last_call, connVars,
                   doc, doc_min_length, doc_max_size, segments, lines, line_no,
                   current_para, consecutive_empty, dbVars, runVars, histVars>>

InitLines ==
    /\ InitScheduler({"ok"}, {1}, {FALSE})
    /\ InitSegmenter({DefaultMinLength}, LineMaxSizes)

NextLines ==
    \/ \E line \in LinePieces : AddLine(line)
    \/ LineStep
    \/ LineEnd

SpecLines == InitLines /\ [][NextLines]_vars

\* Runs during which checkpoint writes can fail; the provider answers or
\* keeps failing.
InitStoreFault == InitRun({"ok", "fail"}, 1..MaxWorkers, {FALSE})

NextStoreFault ==
    \/ Next
    \/ \E w \in Workers : CommitResultWriteFails(w)

SpecStoreFault == InitStoreFault /\ [][NextStoreFault]_vars

\* Scheduling: pool threads and the main thread keep running, provider calls
\* and callbacks return.  The user's actions (start, stop, resume) are not fair.
FairSpec ==
    /\ Spec
    /\ WF_vars(AsCompletedNext)
    /\ WF_vars(ReturnText)
    /\ WF_vars(RaiseStopped)
    /\ \A w \in Workers : WF_vars(WorkerStep(w))


\* One run under the same scheduling.
FairSpecOneRun ==
    /\ SpecOneRun
    /\ WF_vars(AsCompletedNext)
    /\ WF_vars(ReturnText)
    /\ WF_vars(RaiseStopped)
    /\ \A w \in Workers : WF_vars(WorkerStep(w))

\* ================================================================ claims
TaskIndices == {i \in Paras : i >= resume_from_index}
Returned == phase \in {"returned", "completed"}

\* What one uninterrupted run over the same paragraphs leaves in the slots and
\* returns, for the client's script.
UninterruptedSlots ==
    [i \in Paras |->
        CASE client[i] \in {"ok", "flaky"} -> Tr(i)
          [] client[i] = "fail" -> ErrorText(i)
          [] client[i] = "auth" -> None]

UninterruptedText == JoinText(UninterruptedSlots)

\* A fresh run that was never asked to stop returns UninterruptedText.
FreshRunReturnsUninterruptedText ==
    (phase = "returned" /\ run_kind = "fresh") => result = UninterruptedText

\* C1: a run in which a provider call failed with an authentication failure
\* never returns a joined text (it ends with a fatal error instead).
C1_AuthFailureNeverReturnsText ==
    Returned => auth_failed = {}

\* C2: a run resumed after a stop, with resume_from_index = the stored
\* completed_paragraphs, returns the same joined text as one uninterrupted run.
C2_ResumeEqualsUninterrupted ==
    (phase = "returned" /\ run_kind = "resumed") => result = UninterruptedText

\* C3: in a resumed run the client is never invoked for an index whose
\* translation is already stored in the loaded checkpoint.
C3_ResumeNeverRecallsStored ==
    run_kind = "resumed" => \A i \in Paras : calls[i] > 0 => i \notin loaded

\* C4: a returned text has exactly total_paragraphs segments, one per index
\* 0..total-1 in index order, each a translation or an error-annotated original.
C4_ReturnedTextIsComplete ==
    phase = "returned" =>
        /\ Len(result) = total_paragraphs
        /\ \A i \in Paras : result[i + 1] \in {Tr(i), ErrorText(i)}

\* C5: a paragraph whose provider calls fail (non-auth) until the retries are
\* exhausted does not abort the job: its task ends without an exception, the
\* job is left only by completing or by a requested stop, and when the job
\* returns, the failed index holds original text + error marker while every
\* other index of the run holds its translation.
C5_SoftFailureCompletes ==
    /\ \A i \in Paras : future[i] = "error" => client[i] = "auth"
    /\ phase \in {"stopping", "stopped"} => translation_stopped
    /\ phase = "returned" =>
         \A i \in TaskIndices :
            /\ client[i] = "fail" =>
                 /\ translated_paragraphs[i] = ErrorText(i)
                 /\ i + 1 \in failed_paragraphs
                 /\ \E k \in 1..Len(result) : result[k] = ErrorText(i)
            /\ client[i] \in {"ok", "flaky"} => translated_paragraphs[i] = Tr(i)

C5_Witness ==
    /\ phase = "returned"
    /\ run_kind = "fresh"
    /\ \E i \in Paras : client[i] = "fail" /\ translated_paragraphs[i] = ErrorText(i)
    /\ \E j \in Paras : translated_paragraphs[j] = Tr(j)
    /\ Len(result) = total_paragraphs

\* C6: when stop was requested (and stays) while a task had not yet completed,
\* translate does not return a joined text; the only way it hands control back
\* is the stop signal.
C6_StopRaisesStoppedSignal ==
    stop_while_incomplete =>
        /\ translation_stopped
        /\ phase \in {"running", "stopping", "stopped"}
        /\ result = <<>>

C6_Witness ==
    /\ phase = "stopped"
    /\ stop_while_incomplete
    /\ \E i \in Paras : translated_paragraphs[i] = None

\* C7: a task whose start-time stop_check returned true made no provider call,
\* wrote neither its result slot nor the checkpoint, and its slot stays None.
C7_AbandonedTaskDoesNothing ==
    \A i \in abandoned :
        /\ calls[i] = 0
        /\ assigned[i] = 0
        /\ i \notin written
        /\ translated_paragraphs[i] = None

C7_Witness ==
    /\ phase = "stopped"
    /\ abandoned # {}
    /\ written # {}

\* C8: with no provider failures, when stop is requested while the k-th
\* success is being reported (progress_callback called with k), the
\* checkpoint's completed_paragraphs after the stop signal is within
\* k .. k + workers - 1.
C8_StopCheckpointWithinTolerance ==
    (/\ phase = "stopped"
     /\ stop_at_count > 0
     /\ \A i \in Paras : client[i] = "ok")
    => /\ LoadCompleted(db_job, db_paragraphs) >= stop_at_count
       /\ LoadCompleted(db_job, db_paragraphs)
            <= stop_at_count + max_workers(MAX_WORKERS) - 1

C8_Witness ==
    /\ phase = "stopped"
    /\ run_kind = "fresh"
    /\ stop_at_count = 1
    /\ \A i \in Paras : client[i] = "ok"
    /\ max_workers(MAX_WORKERS) = 2
    /\ LoadCompleted(db_job, db_paragraphs) = 2

C10_ProgressStrictlyIncreasing ==
    \A k \in 1..(Len(progress_log) - 1) : progress_log[k] < progress_log[k + 1]

C10_Witness ==
    /\ Len(progress_log) = total_paragraphs
    /\ max_workers(MAX_WORKERS) = 2
    /\ progress_log[Len(progress_log)] = total_paragraphs

\* Indices the checkpoint held a translation for at some point of the run:
\* stored when the run started, or upserted by the run.
StoredInRun == loaded \cup written

StillStored(i) ==
    /\ i \in LoadedTranslated(db_job, db_paragraphs)
    /\ db_paragraphs[i].translated_text = Tr(i)

\* C11: once a provider call of the run failed with an authentication
\* failure, every paragraph the checkpoint held stays stored: load still
\* returns it after the job has ended.
C11_AuthFailureKeepsCheckpoint ==
    auth_failed # {} => \A i \in StoredInRun : StillStored(i)

\* C12: after a job completed, its job row and all its paragraph rows are
\* gone and load finds nothing; after a job ended stopped, every paragraph the
\* checkpoint held is still stored.
C12_CompletedDeletesStoppedKeeps ==
    /\ phase = "completed" =>
         /\ ~db_job.present
         /\ \A i \in Paras : ~db_paragraphs[i].present
         /\ LoadedTranslated(db_job, db_paragraphs) = {}
    /\ phase = "stopped" =>
         /\ \A i \in StoredInRun : StillStored(i)
         /\ StoredInRun # {} => db_job.present

\* A job that was stopped with a kept checkpoint, resumed from it, resolved
\* every index and completed.
C12_Witness ==
    /\ phase = "completed"
    /\ run_kind = "resumed"
    /\ loaded # {}
    /\ written # {}
    /\ \A i \in Paras : translated_paragraphs[i] # None

\* C13: with one worker, after a provider call of the run failed with an
\* authentication failure, no provider call is made for a paragraph that had
\* none before (with one worker these are the paragraphs not yet started).
C13_NoNewCallAfterAuthFailure ==
    [][(max_workers(MAX_WORKERS) = 1 /\ auth_failed # {})
          => \A i \in Paras : calls[i] = 0 => calls'[i] = 0]_vars

\* C16 as stated: no worker holds the lock while a progress callback executes.
C16_CallbackOutsideLock ==
    \A w \in Workers : wpc[w] = "cb" => progress_lock = 0

\* C16: progress_callback(completed_count, total) is called while the worker
\* still holds progress_lock, which is released when the callback returns;
\* callbacks are serialized and no other worker commits a result meanwhile.
C16_CallbackUnderLock ==
    /\ [](\A w \in Workers : wpc[w] = "cb" <=> progress_lock = w)
    /\ [][\A w \in Workers : (wpc[w] = "cb" /\ wpc'[w] = "cb") =>
            /\ translated_paragraphs' = translated_paragraphs
            /\ db_paragraphs' = db_paragraphs
            /\ progress_log' = progress_log]_vars

\* A callback is running while another worker waits to commit its result.
C16_Witness ==
    \E w, v \in Workers : wpc[w] = "cb" /\ wpc[v] = "commit"

C17_NoWriteAfterStop ==
    [][phase = "stopping" =>
          /\ translated_paragraphs' = translated_paragraphs
          /\ db_paragraphs' = db_paragraphs]_vars

\* C17: in-flight provider calls are not aborted and their results are kept:
\* when the stop signal reaches the caller, every paragraph whose provider
\* call succeeded has its translation in its slot and in the checkpoint.
C17_InFlightResultsKept ==
    phase = "stopped" =>
        \A i \in Paras :
            (calls[i] > 0 /\ client[i] \in {"ok", "flaky"}) =>
                /\ translated_paragraphs[i] = Tr(i)
                /\ i \in written
                /\ StillStored(i)

\* The stop was requested while the k-th result was being reported, and more
\* than k results of the run are in the checkpoint when the run ends stopped.
C17_Witness ==
    /\ phase = "stopped"
    /\ stop_at_count > 0
    /\ Cardinality(written) > stop_at_count

\* C14 as stated: the provider is called at most max_retries times for one
\* paragraph.
C14_AtMostMaxRetriesCalls ==
    \A i \in Paras : calls[i] <= MAX_RETRIES

\* C14: the retry loop makes at most max_retries attempts for one paragraph.
\* An attempt is one provider call, except that the attempt in which the
\* streamed response breaks makes a second, non-streaming call: the provider is
\* called at most max_retries times in non-streaming mode and at most
\* max_retries + 1 times in streaming mode.  A paragraph whose calls all fail
\* with rate-limit, network or other errors is resolved as failed_soft after
\* max_retries attempts.
C14_AtMostMaxRetriesAttempts ==
    /\ \A w \in Workers : attempt[w] <= MAX_RETRIES - 1
    /\ \A i \in Paras :
         calls[i] <= (IF ENABLE_STREAMING THEN MAX_RETRIES + 1 ELSE MAX_RETRIES)
    /\ \A i \in Paras :
         (client[i] = "fail" /\ future[i] = "done" /\ i \notin abandoned) =>
             /\ calls[i] >= MAX_RETRIES
             /\ translated_paragraphs[i] = ErrorText(i)
             /\ (i + 1) \in failed_paragraphs

\* A persistently failing paragraph resolved as failed_soft after
\* max_retries + 1 provider calls.
C14_Witness ==
    \E i \in Paras :
        /\ client[i] = "fail"
        /\ calls[i] = MAX_RETRIES + 1
        /\ translated_paragraphs[i] = ErrorText(i)
        /\ (i + 1) \in failed_paragraphs

\* C15 as stated: a paragraph whose provider call failed with an
\* authentication failure has had exactly one provider call.
C15_AuthFailureCalledOnce ==
    \A i \in auth_failed : calls[i] = 1

\* C18: a paragraph whose checkpoint write failed keeps its translation in
\* its slot, its task ends normally, it is counted in the completed_count
\* passed to progress_callback and it is in the returned text; the checkpoint
\* does not get it, and the rows the run did store are not affected.
C18_WriteFailureIsNotFatal ==
    /\ \A i \in write_failed :
         /\ translated_paragraphs[i] = Tr(i)
         /\ future[i] \in {"running", "done"}
         /\ i \notin written
         /\ i \notin loaded => i \notin LoadedTranslated(db_job, db_paragraphs)
         /\ Returned => \E k \in 1..Len(result) : result[k] = Tr(i)
    /\ Len(progress_log) = Cardinality(written \cup write_failed)
    /\ Len(progress_log) > 0 =>
         progress_log[Len(progress_log)] >= Cardinality(written \cup write_failed)
    /\ phase # "completed" => \A j \in written : StillStored(j)

\* A returned run with a paragraph that is in the text but not in the
\* checkpoint, next to one that is in both.
C18_Witness ==
    /\ phase = "returned"
    /\ write_failed # {}
    /\ written # {}
    /\ LoadCompleted(db_job, db_paragraphs) < CompletedCount(translated_paragraphs)
    /\ progress_log[Len(progress_log)] = total_paragraphs

\* A step that is a direct call of update_progress_paragraph with the
\* arguments noted in last_call (a call that changes nothing is no step).
UpsertStep ==
    /\ last_call'.op = "upsert"
    /\ <<last_call, db_job, db_paragraphs>>' # <<last_call, db_job, db_paragraphs>>

\* C20: after a call of update_progress_paragraph the job row exists and the
\* row of the call's index holds the call's text.  The first call for the job
\* creates the job row; a call for an index that has a row replaces only that
\* row's translated_text; a call that repeats the one before it changes
\* nothing except the job row's updated_at.
C20_UpsertLastWriteWins ==
    /\ [](last_call.op = "upsert" =>
            /\ db_job.present
            /\ db_paragraphs[last_call.idx].present
            /\ db_paragraphs[last_call.idx].translated_text = last_call.text)
    /\ [][UpsertStep =>
            LET idx == last_call'.idx IN
            /\ ~db_job.present =>
                  /\ db_job'.present
                  /\ db_job'.created_at = now
                  /\ db_job'.total_paragraphs = total_paragraphs
            /\ db_paragraphs[idx].present =>
                  db_paragraphs' =
                      [db_paragraphs EXCEPT ![idx].translated_text = last_call'.text]
            /\ last_call' = last_call =>
                  /\ db_paragraphs' = db_paragraphs
                  /\ db_job' = [db_job EXCEPT !.updated_at = now]]_vars

\* The same index was written twice, at different times, with different
\* texts: one row, holding the later text.
C20_Witness ==
    /\ last_call.op = "upsert"
    /\ last_call.text = Tr(last_call.idx)
    /\ db_job.updated_at > db_job.created_at
    /\ Cardinality({i \in Paras : db_paragraphs[i].present}) = 1
    /\ db_paragraphs[last_call.idx].translated_text = Tr(last_call.idx)

\* C30: when a resumed run has returned, every index below resume_from_index
\* that had no translation in the loaded checkpoint has been translated (or
\* resolved as failed) by the resumed run.
C30_ResumeTranslatesGaps ==
    (phase = "returned" /\ run_kind = "resumed") =>
        \A i \in Paras :
            (i < resume_from_index /\ i \notin loaded) =>
                (calls[i] > 0 /\ translated_paragraphs[i] # None)

C23_UpsertFrame ==
    [][(UpsertStep /\ db_job.present) =>
          LET idx == last_call'.idx IN
          /\ db_job' = [db_job EXCEPT !.updated_at = now]
          /\ db_job'.updated_at >= db_job.updated_at
          /\ \A j \in Paras : j # idx => db_paragraphs'[j] = db_paragraphs[j]
          /\ db_paragraphs[idx].present =>
                db_paragraphs'[idx].original_text = db_paragraphs[idx].original_text]_vars

\* A later call with another language pair, model and paragraph list has
\* been made on a job: the job row and the original text are those of the
\* first call.
C23_Witness ==
    /\ last_call.op = "upsert"
    /\ last_call.settings = OtherSettings
    /\ db_job.present
    /\ db_job.model_name = model_name
    /\ db_job.updated_at > db_job.created_at
    /\ db_paragraphs[last_call.idx].original_text = AltParagraphs[last_call.idx]
    /\ db_paragraphs[last_call.idx].translated_text = last_call.text

\* C22: threads call update_progress_paragraph at the same time, each for
\* indices no other thread writes.  When every call has committed, the row
\* of each written index holds the original text and the translated text its
\* writer passed last, the job row exists, and no other row exists.
C22_ConcurrentUpsertsKeepRows ==
    (\A c \in Workers : conn_pc[c] = "idle") =>
        /\ \A i \in Paras :
             IF owner[i] = 0 THEN ~db_paragraphs[i].present
             ELSE /\ db_paragraphs[i].present
                  /\ db_paragraphs[i].original_text = paragraphs[i]
                  /\ db_paragraphs[i].translated_text = supplied[i]
        /\ (\E i \in Paras : owner[i] # 0) =>
             (db_job.present /\ db_job.total_paragraphs = total_paragraphs)

\* Every index has been written, by more than one thread, and all calls
\* have committed.
C22_Witness ==
    /\ \A c \in Workers : conn_pc[c] = "idle"
    /\ \A i \in Paras : owner[i] # 0 /\ db_paragraphs[i].present
    /\ \E i, j \in Paras : owner[i] # owner[j]

\* ------------------------------------------------- claims on the segmenter
NonBlank(s) == SelectSeq(s, LAMBDA c : c \notin Whitespace)

RECURSIVE IsSubsequence(_, _)
IsSubsequence(a, b) ==
    IF a = <<>> THEN TRUE
    ELSE IF b = <<>> THEN FALSE
    ELSE IF Head(a) = Head(b) THEN IsSubsequence(Tail(a), Tail(b))
    ELSE IsSubsequence(a, Tail(b))

\* The blank-line fragments of the text that are at least min_len long.
FragmentsOfLength(min_len) ==
    CleanFragments(split(CollapseNewlines(CollapseSpaces(text)), <<NL, NL>>), min_len)

\* C24: every paragraph returned by split_into_paragraphs is at most
\* 1.5 * max_paragraph_size long, for every text and every pair of
\* min_length and max_paragraph_size.
C24_ParagraphsAtMostOneAndHalfMax ==
    segmented =>
        \A i \in 1..Len(segments) : 2 * Len(segments[i]) <= 3 * doc_max_size

\* C25: every paragraph returned by split_into_paragraphs is at least
\* min_length long (a text shorter than min_length returns no paragraph).
C25_ParagraphsAtLeastMinLength ==
    segmented =>
        /\ \A i \in 1..Len(segments) : Len(segments[i]) >= doc_min_length
        /\ Len(strip(text)) < doc_min_length => segments = <<>>

\* A paragraph was returned although a shorter non-blank fragment was in the text.
C25_Witness ==
    /\ segmented
    /\ segments # <<>>
    /\ \E i \in 1..Len(FragmentsOfLength(1)) :
            Len(FragmentsOfLength(1)[i]) < doc_min_length

\* C26: split_into_paragraphs returns no empty string as a paragraph, and
\* returns a non-empty list for a non-blank text longer than min_length.
C26_NoEmptyParagraphNoEmptyList ==
    segmented =>
        /\ \A i \in 1..Len(segments) : segments[i] # <<>>
        /\ (~IsBlank(text) /\ Len(text) > doc_min_length) => segments # <<>>

\* C27: the non-whitespace characters of the text appear, in the order of
\* the text, in the concatenation of the returned paragraphs.
C27_NoContentLost ==
    segmented => IsSubsequence(NonBlank(text), NonBlank(Flatten(segments)))

VerseExample ==
    <<"1", ".", " ", "A", "l", "p", "h", "a", NL, NL,
      "2", ".", " ", "B", "e", "t", "a", NL, NL,
      "3", ".", " ", "G", "a", "m", "m", "a">>

VerseExampleGrouped ==
    <<"1", ".", " ", "A", "l", "p", "h", "a", " ",
      "2", ".", " ", "B", "e", "t", "a", " ",
      "3", ".", " ", "G", "a", "m", "m", "a">>

\* The text consists of two or more verse-numbered fragments of at least
\* min_length whose concatenation is at most max_paragraph_size long.
VerseDocument ==
    LET fragments == FragmentsOfLength(doc_min_length) IN
    /\ Len(fragments) > 1
    /\ fragments = FragmentsOfLength(1)
    /\ \A i \in 1..Len(fragments) : verse_pattern(fragments[i])
    /\ Len(join(fragments)) <= doc_max_size

\* C28: consecutive blank-line-separated fragments that each start with a
\* numeric marker come back as one paragraph, in the order of the text:
\* "1. Alpha\n\n2. Beta\n\n3. Gamma" with min_length = 5 gives exactly the
\* paragraph "1. Alpha 2. Beta 3. Gamma".
C28_VersesGrouped ==
    /\ split_into_paragraphs(VerseExample, 5, DefaultMaxParagraphSize)
           = <<VerseExampleGrouped>>
    /\ (segmented /\ VerseDocument) =>
           segments = <<join(FragmentsOfLength(doc_min_length))>>

\* Two verses too long for the merging of short paragraphs came back as one.
C28_Witness ==
    /\ segmented
    /\ VerseDocument
    /\ Len(segments) = 1
    /\ \A i \in 1..Len(FragmentsOfLength(1)) :
            Len(FragmentsOfLength(1)[i]) >= doc_min_length * FinalMergeFactor

\* C29: split_into_paragraphs returns the empty list for the empty text and
\* for a text of whitespace only.
C29_BlankGivesEmptyList ==
    /\ split_into_paragraphs(<<>>, DefaultMinLength, DefaultMaxParagraphSize) = <<>>
    /\ split_into_paragraphs(<<" ", " ", " ">>, DefaultMinLength, DefaultMaxParagraphSize) = <<>>
    /\ (segmented /\ IsBlank(text)) => segments = <<>>

C29_Witness ==
    /\ segmented
    /\ text # <<>>
    /\ IsBlank(text)
    /\ segments = <<>>

\* ------------------------------------------- claims on the scheduler, again
\* Positions of a task between the start of its first provider call and the
\* write of its slot.
InFlightPositions == {"call", "call_stream", "streaming", "stream_cb", "commit", "softfail"}

\* The state of paragraph index i: "raised" is the task left by the
\* authentication error, which writes no slot.
ParagraphState(slots, fut, positions, indices, i) ==
    IF slots[i] # None
    THEN (IF slots[i] = ErrorText(i) THEN "failed_soft" ELSE "done")
    ELSE IF fut[i] = "error" THEN "raised"
    ELSE IF \E w \in Workers : positions[w] \in InFlightPositions /\ indices[w] = i
         THEN "in_flight"
         ELSE "pending"

FailuresBeforeSuccess(beh) == IF beh = "flaky" THEN 1 ELSE MAX_RETRIES - 1

\* C32: a paragraph whose provider call fails with rate-limit, network or
\* other transient failures on fewer than max_retries attempts and then
\* succeeds ends done with the text of the successful call: no error marker,
\* stored in the checkpoint, counted in the progress reports.
C32_FlakyParagraphEndsDone ==
    /\ \A i \in Paras :
         (client[i] \in FlakyBehaviours /\ future[i] = "done" /\ i \notin abandoned) =>
             /\ calls[i] = FailuresBeforeSuccess(client[i]) + 1
             /\ translated_paragraphs[i] = Tr(i)
             /\ (i + 1) \notin failed_paragraphs
             /\ i \in written
             /\ phase # "completed" => StillStored(i)
    /\ Len(progress_log) = Cardinality(written)
    /\ \A k \in 1..Len(progress_log) : progress_log[k] >= k

\* A paragraph that failed max_retries - 1 times is done next to one that
\* failed once.
C32_Witness ==
    /\ phase = "returned"
    /\ \E i, j \in Paras :
         /\ client[i] = "flaky_twice" /\ calls[i] = MAX_RETRIES
         /\ client[j] = "flaky" /\ calls[j] > 1
         /\ translated_paragraphs[i] = Tr(i) /\ translated_paragraphs[j] = Tr(j)
         /\ StillStored(i) /\ StillStored(j)
    /\ progress_log[Len(progress_log)] = total_paragraphs

\* Paragraphs whose provider call has started and is not yet resolved.
InFlight ==
    {i \in Paras : ParagraphState(translated_paragraphs, future, wpc, widx, i) = "in_flight"}

\* C33: at every moment the number of paragraphs in flight, and the number of
\* tasks being executed, is at most the configured worker count, a configured
\* count below 1 counting as 1.
C33_InFlightAtMostWorkerCount ==
    LET worker_count == IF MAX_WORKERS < 1 THEN 1 ELSE MAX_WORKERS IN
    /\ Cardinality(InFlight) <= worker_count
    /\ Cardinality({w \in Workers : wpc[w] # "idle"}) <= worker_count

\* As many paragraphs are in flight as there are workers while a task waits.
C33_Witness ==
    /\ MAX_WORKERS = MaxWorkers
    /\ Cardinality(InFlight) = MAX_WORKERS
    /\ work_queue # <<>>

\* Positions of a task whose provider call is pending.
ProviderCallPositions == {"call", "call_stream", "streaming"}
\* Positions of a task that is inside a callback of the caller.
CallbackPositions == {"cb", "stream_cb"}

\* C34 as stated: no worker holds the lock while its provider call is
\* pending, and the lock is held only for the slot write with its checkpoint
\* write and for building the streamed view, not while a callback runs.
C34_LockOnlyForWritesAndView ==
    \A w \in Workers :
        /\ wpc[w] \in ProviderCallPositions => progress_lock # w
        /\ wpc[w] \in CallbackPositions => progress_lock # w

\* C34: no worker holds progress_lock while it waits for the provider, in
\* streaming mode between the chunks included.  The lock is held exactly
\* from the slot write with its checkpoint write until progress_callback has
\* returned, and from the building of the streamed view of a chunk until
\* stream_callback has returned.
C34_LockScope ==
    \A w \in Workers :
        /\ wpc[w] \in ProviderCallPositions => progress_lock # w
        /\ progress_lock = w <=> wpc[w] \in CallbackPositions

\* Two workers are inside provider calls for different paragraphs at once.
C34_Witness ==
    \E w, v \in Workers :
        /\ w # v
        /\ wpc[w] = "streaming" /\ wpc[v] = "streaming"
        /\ widx[w] # widx[v]
        /\ progress_lock = 0
        /\ written # {}

\* ------------------------------------------------ claims on line splitting
\* A step of the loop closes the paragraph accumulated so far.
ParagraphClosed ==
    /\ line_no' = line_no + 1
    /\ current_para # <<>>
    /\ current_para' \in {<<>>, <<strip(lines[line_no + 1])>>}

\* The rule for a boundary before the line the loop is looking at.
BoundaryRule ==
    LET line == strip(lines[line_no + 1])
        previous == current_para[Len(current_para)]
        accumulated == Len(join(current_para))
    IN \/ /\ previous[Len(previous)] \in SentenceEnd
          /\ line # <<>>
          /\ (Head(line) \in CapitalLetters \/ verse_pattern(line))
          /\ accumulated >= 800
       \/ 4 * accumulated >= 3 * doc_max_size

\* The paragraph is closed at the second of two blank lines in a row.
BlankLineBreak ==
    /\ strip(lines[line_no + 1]) = <<>>
    /\ consecutive_empty' >= 2

\* C35 as stated: line-based resplitting closes the accumulated paragraph
\* only if the previous line ends a sentence, the line starts with a capital
\* letter or a list marker and 800 characters are accumulated, or if the
\* accumulated paragraph has reached 0.75 * max_size.
C35_BoundaryOnlyByRule == [][ParagraphClosed => BoundaryRule]_vars

\* C35: line-based resplitting closes the accumulated paragraph only by that
\* rule or at the second of two consecutive blank lines; a line with a
\* leading number alone does not close it.  The loop computes what LineLoop
\* computes.
C35_BoundaryByRuleOrBlankLines ==
    /\ [][ParagraphClosed => (BoundaryRule \/ BlankLineBreak)]_vars
    /\ [](segmented =>
            potential_paragraphs =
              LineLoop(lines, doc_min_length, doc_max_size, <<>>, <<>>, 0))

\* The three signals have closed a paragraph of 800 characters or more that
\* is below 0.75 * max_size, before a list marker.
C35_Witness ==
    /\ line_no = 3
    /\ \A k \in 1..3 : strip(lines[k]) # <<>>
    /\ Len(potential_paragraphs) = 1
    /\ Len(potential_paragraphs[1]) >= 800
    /\ 4 * Len(potential_paragraphs[1]) < 3 * doc_max_size
    /\ current_para = <<lines[3]>>
    /\ verse_pattern(lines[3])

\* C36: with provider calls and callbacks that return, a run of translate
\* ends, either returning the joined text or raising the stop signal, never
\* both; when it has ended no task is waiting for progress_lock and no
\* worker holds it.
C36_RunTerminates ==
    /\ (phase = "running") ~> (phase \in {"returned", "stopped"})
    /\ [](phase \in {"returned", "stopped"} =>
            progress_lock = 0 /\ \A w \in Workers : wpc[w] = "idle")
    /\ [](phase = "returned" => result = JoinText(translated_paragraphs))
    /\ [](phase \in {"running", "stopping", "stopped"} => result = <<>>)

\* A run has ended after a commit, a soft failure and an authentication error.
C36_Witness ==
    /\ phase \in {"returned", "stopped"}
    /\ written # {}
    /\ failed_paragraphs # {}
    /\ auth_failed # {}

\* translate has handed control back to the caller.
HandedBack == phase \in {"returned", "stopped", "completed"}

\* C37: when translate has returned or raised, the stop signal included, no
\* task is queued, none is running and no worker holds progress_lock, so
\* nothing is left that could write a result slot or the checkpoint.
C37_NoTaskOutlivesTranslate ==
    HandedBack =>
        /\ work_queue = <<>>
        /\ \A i \in Paras : future[i] \notin {"pending", "running"}
        /\ \A w \in Workers : wpc[w] = "idle" /\ widx[w] = 0
        /\ progress_lock = 0

\* The stop signal was raised in a run that had unfinished tasks at the stop
\* request: one was cancelled, and two results are in the checkpoint.
C37_Witness ==
    /\ phase = "stopped"
    /\ stop_while_incomplete
    /\ \E i \in Paras : future[i] = "cancelled"
    /\ Cardinality(written) >= 2

PopulatedFromCheckpoint == {i \in Paras : i < resume_from_index /\ i \in loaded}

\* C39: in a resumed run no task writes a slot below resume_from_index that
\* was populated from the checkpoint, and in the returned text each of them
\* is the segment at its index position.
C39_LoadedSlotsKeptInPlace ==
    /\ run_kind = "resumed" =>
         \A i \in PopulatedFromCheckpoint :
            assigned[i] = 0 /\ translated_paragraphs[i] = Tr(i)
    /\ (run_kind = "resumed" /\ phase = "returned") =>
         \A i \in PopulatedFromCheckpoint :
            Len(result) > i /\ result[i + 1] = Tr(i)

\* The first half of C39 alone: the populated slots are never rewritten.
LoadedSlotsNeverRewritten ==
    run_kind = "resumed" =>
        \A i \in PopulatedFromCheckpoint :
            assigned[i] = 0 /\ calls[i] = 0 /\ translated_paragraphs[i] = Tr(i)

\* C40: every progress_callback call of a run reports a count between 1 and
\* the number of paragraphs, and when the run has returned its text the last
\* call has reported that number.  Stated for fresh runs without an
\* authentication error, soft-failed paragraphs included.
C40_LastProgressReportsTotal ==
    /\ \A k \in 1..Len(progress_log) :
         1 <= progress_log[k] /\ progress_log[k] <= total_paragraphs
    /\ (phase = "returned" /\ run_kind = "fresh" /\ auth_failed = {}) =>
         /\ progress_log # <<>>
         /\ progress_log[Len(progress_log)] = total_paragraphs

\* The first half of C40 alone.
ProgressCountsInRange ==
    \A k \in 1..Len(progress_log) :
        1 <= progress_log[k] /\ progress_log[k] <= total_paragraphs

====
